---------------------------- MODULE Spec2Model ----------------------------
(***************************************************************************)
(* A model of the Stylist of components/style/selector_matching.rs: the    *)
(* per-pseudo-element, per-origin, per-importance selector maps, their     *)
(* rebuild (update / add_stylesheet), the device update (set_device) and   *)
(* the cascade lookup (push_applicable_declarations); of the workers of a   *)
(* parallel traversal that read the stylist while its owner rebuilds it;   *)
(* and of the ScriptReflow of components/script/layout_interface.rs, which *)
(* notifies the script thread when it is dropped.                          *)
(***************************************************************************)
EXTENDS Integers, Sequences, FiniteSets, TLC

VARIABLES stylist, document_stylesheets, last, script_reflows, resources,
          readers, rebuild

vars == <<stylist, document_stylesheets, last, script_reflows, resources,
          readers, rebuild>>

(***************************************************************************)
(* Bounds of the model.                                                    *)
(***************************************************************************)
\* Longest list of document stylesheets a caller passes.
MaxDocs == 2
\* Widest device viewport.
MaxWidth == 2
\* Most script reflows in flight.
MaxReflows == 2
\* Most workers of a parallel traversal.
MaxWorkers == 2

(***************************************************************************)
(* Small helpers on sequences.                                             *)
(***************************************************************************)
Range(s) == {s[i] : i \in 1..Len(s)}

\* TLC evaluates an argument of an operator when the operator first uses
\* it. A fold tests Evaluated(x) of each accumulator x before it goes on, so
\* that x is computed then and not inside the computation of its successors.
Evaluated(x) == x = x

RECURSIVE FlattenSeq(_)
FlattenSeq(ss) ==
    IF ss = <<>> THEN <<>> ELSE Head(ss) \o FlattenSeq(Tail(ss))

(***************************************************************************)
(* Pseudo-elements and their cascade types (Impl::PseudoElement).          *)
(***************************************************************************)
EagerPseudos == {"before"}
LazyPseudos == {"selection"}
PrecomputedPseudos == {"details_content", "servo_anonymous_block"}
PseudoElements == EagerPseudos \cup LazyPseudos \cup PrecomputedPseudos

\* Option<&Impl::PseudoElement>: <<>> is None, <<p>> is Some(p).
OptPseudos == {<<>>} \cup {<<p>> : p \in PseudoElements}

(***************************************************************************)
(* Devices and media queries.                                              *)
(***************************************************************************)
\* Device::new(MediaType::Screen, size)
Device(size) == [media_type |-> "Screen", viewport_size |-> size]

Devices == {Device(w) : w \in 1..MaxWidth}

\* A media query (min-width: q) evaluated against a device.
MediaEvaluate(q, device) == device.viewport_size >= q

(***************************************************************************)
(* Selectors, style rules and stylesheets.                                 *)
(***************************************************************************)
\* A compound selector with one simple selector, and an optional
\* state pseudo-class.
Compound(kind, name, state) == [kind |-> kind, name |-> name, state |-> state]

Selector(compound, pseudo, specificity) ==
    [compound_selectors |-> compound,
     pseudo_element     |-> pseudo,
     specificity        |-> specificity]

Universal == Compound("universal", "*", "none")
Tag(n)    == Compound("tag", n, "none")
Class(n)  == Compound("class", n, "none")
Id(n)     == Compound("id", n, "none")
Hover(n)  == Compound("tag", n, "hover")

StyleRule(selectors, normal, important) ==
    [type         |-> "style",
     selectors    |-> selectors,
     declarations |-> [normal |-> normal, important |-> important]]

MediaRule(q, rules) == [type |-> "media", query |-> q, rules |-> rules]

ViewportRule(w) == [type |-> "viewport", width |-> w]

\* media is <<>> (no media list) or <<q>>.
Stylesheet(origin, media, rules) ==
    [origin |-> origin, media |-> media, rules |-> rules]

\* The files read_resource_file is asked for: the three the user-agent
\* stylesheets are parsed from, in the order of the loop, and the one of the
\* quirks-mode stylesheet.
UserAgentFiles == <<"user-agent.css", "servo.css", "presentational-hints.css">>

QuirksModeFile == "quirks-mode.css"

ResourceFiles == {UserAgentFiles[i] : i \in DOMAIN UserAgentFiles} \cup {QuirksModeFile}

\* The stylesheet parsed from user-agent.css.
UserAgentSheet ==
    Stylesheet("UserAgent", <<>>,
      << StyleRule(<<Selector(Tag("div"), <<>>, 1)>>, <<"ua.div.n">>, <<>>),
         StyleRule(<<Selector(Universal, <<"details_content">>, 1)>>,
                   <<"ua.dc.n">>, <<"ua.dc.i">>),
         StyleRule(<<Selector(Class("a"), <<>>, 10)>>, <<>>, <<"ua.a.i">>) >>)

\* Stylesheet::from_bytes of a user-agent file, at the UserAgent origin;
\* servo.css and presentational-hints.css hold no rule here.
UserAgentSheetOf(filename) ==
    IF filename = "user-agent.css"
    THEN UserAgentSheet
    ELSE Stylesheet("UserAgent", <<>>, <<>>)

\* The stylesheet parsed from opts::get().user_stylesheets.
UserSheet ==
    Stylesheet("User", <<>>,
      << StyleRule(<<Selector(Tag("div"), <<>>, 1)>>,
                   <<"user.div.n">>, <<"user.div.i">>),
         StyleRule(<<Selector(Universal, <<"details_content">>, 1)>>,
                   <<"user.dc.n">>, <<>>) >>)

\* The value of USER_OR_USER_AGENT_STYLESHEETS once every file was read: one
\* user-agent sheet per file, then the user sheets.
UserOrUserAgentSheets ==
    [i \in DOMAIN UserAgentFiles |-> UserAgentSheetOf(UserAgentFiles[i])]
    \o <<UserSheet>>

\* The value of QUIRKS_MODE_STYLESHEET once quirks-mode.css was read.
QuirksModeSheet ==
    Stylesheet("UserAgent", <<>>,
      << StyleRule(<<Selector(Tag("div"), <<>>, 1)>>, <<"quirks.div.n">>, <<>>),
         StyleRule(<<Selector(Universal, <<"details_content">>, 1)>>,
                   <<"quirks.dc.n">>, <<"quirks.dc.i">>) >>)

\* The outcome of the first use of a lazy static: its value, or the error
\* logged before process::exit(1).
Loaded(value) == [exit |-> FALSE, error |-> "none", value |-> value]

ProcessExit(error) == [exit |-> TRUE, error |-> error, value |-> <<>>]

\* error!("Failed to load UA stylesheet {}!", filename)
FailedToLoadUA(filename) ==
    CASE filename = "user-agent.css" ->
             "Failed to load UA stylesheet user-agent.css!"
      [] filename = "servo.css" ->
             "Failed to load UA stylesheet servo.css!"
      [] filename = "presentational-hints.css" ->
             "Failed to load UA stylesheet presentational-hints.css!"

\* lazy_static USER_OR_USER_AGENT_STYLESHEETS: the files are read in order
\* and the first one that cannot be read ends the process.
USER_OR_USER_AGENT_STYLESHEETS ==
    LET failed == {i \in DOMAIN UserAgentFiles : UserAgentFiles[i] \notin resources}
    IN  IF failed # {}
        THEN ProcessExit(FailedToLoadUA(
                 UserAgentFiles[CHOOSE i \in failed : \A j \in failed : i <= j]))
        ELSE Loaded(UserOrUserAgentSheets)

\* lazy_static QUIRKS_MODE_STYLESHEET
QUIRKS_MODE_STYLESHEET ==
    IF QuirksModeFile \in resources
    THEN Loaded(QuirksModeSheet)
    ELSE ProcessExit("Stylist failed to load 'quirks-mode.css'!")

\* The document (author) stylesheets a caller can pass.
DocA ==
    Stylesheet("Author", <<>>,
      << StyleRule(<<Selector(Id("x"), <<>>, 100)>>, <<"a.x.n">>, <<"a.x.i">>),
         StyleRule(<<Selector(Class("a"), <<>>, 10),
                     Selector(Class("b"), <<>>, 10)>>, <<"a.ab.n">>, <<>>),
         StyleRule(<<Selector(Tag("div"), <<"before">>, 2)>>,
                   <<"a.before.n">>, <<>>) >>)

DocB ==
    Stylesheet("Author", <<>>,
      << MediaRule(2, << ViewportRule(1),
                         StyleRule(<<Selector(Tag("div"), <<>>, 1)>>,
                                   <<"b.wide.n">>, <<"b.wide.i">>) >>),
         StyleRule(<<Selector(Tag("div"), <<"selection">>, 2),
                     Selector(Class("a"), <<>>, 10)>>,
                   <<"b.sel.n">>, <<>>),
         StyleRule(<<Selector(Hover("div"), <<>>, 11)>>, <<>>, <<"b.hover.i">>),
         StyleRule(<<Selector(Universal, <<"servo_anonymous_block">>, 1)>>,
                   <<"b.anon.n">>, <<>>) >>)

DocC ==
    Stylesheet("Author", <<2>>,
      << StyleRule(<<Selector(Tag("div"), <<>>, 1)>>, <<"c.div.n">>, <<>>),
         StyleRule(<<Selector(Universal, <<"details_content">>, 1)>>,
                   <<"c.dc.n">>, <<>>),
         StyleRule(<<Selector(Universal, <<>>, 0),
                     Selector(Tag("div"), <<"selection">>, 2),
                     Selector(Universal, <<"servo_anonymous_block">>, 1)>>,
                   <<>>, <<>>),
         StyleRule(<<Selector(Universal, <<>>, 0)>>, <<"c.all.n">>, <<>>),
         StyleRule(<<Selector(Hover("span"), <<>>, 11)>>, <<"c.hover.n">>, <<>>) >>)

DocSheets == {DocA, DocB, DocC}

\* The lists of distinct document stylesheets of length at most MaxDocs.
DocLists ==
    {s \in UNION {[1..n -> DocSheets] : n \in 0..MaxDocs} :
        \A i, j \in 1..Len(s) : i # j => s[i] # s[j]}


(***************************************************************************)
(* Stylesheet: rule iteration and media evaluation.                        *)
(***************************************************************************)
\* Stylesheet::is_effective_for_device: the sheet's own media list, if any.
is_effective_for_device(stylesheet, device) ==
    stylesheet.media = <<>> \/ MediaEvaluate(stylesheet.media[1], device)

\* Stylesheet::rules / Stylesheet::effective_rules: the rules in document
\* order, each media rule followed by the rules nested in it; with a device
\* (dev = <<device>>) a media rule that evaluates to false is skipped with
\* everything nested in it.
RECURSIVE RulesIter(_, _)
RulesIter(rules, dev) ==
    IF rules = <<>> THEN <<>>
    ELSE LET r == Head(rules)
             skipped == r.type = "media" /\ dev # <<>>
                            /\ ~MediaEvaluate(r.query, dev[1])
             nested  == IF r.type = "media" THEN RulesIter(r.rules, dev) ELSE <<>>
         IN  (IF skipped THEN <<>> ELSE <<r>> \o nested)
             \o RulesIter(Tail(rules), dev)

rules(stylesheet) == RulesIter(stylesheet.rules, <<>>)

effective_rules(stylesheet, device) == RulesIter(stylesheet.rules, <<device>>)

\* CSSRuleIteratorExt::style / media / viewport: the rules of one type.
style(rs)    == SelectSeq(rs, LAMBDA r : r.type = "style")
media(rs)    == SelectSeq(rs, LAMBDA r : r.type = "media")
viewport(rs) == SelectSeq(rs, LAMBDA r : r.type = "viewport")

\* ViewportRuleCascade::cascade followed by ViewportConstraints::maybe_new:
\* no constraints when no @viewport rule is given, else the width of the last
\* one (a later descriptor overrides an earlier one).
ViewportConstraints_maybe_new(viewport_rules) ==
    IF viewport_rules = <<>> THEN <<>>
    ELSE <<[size |-> viewport_rules[Len(viewport_rules)].width]>>

(***************************************************************************)
(* Elements.                                                               *)
(***************************************************************************)
\* id is <<>> or <<name>>; hints are the declaration payloads synthesized
\* from the element's legacy presentational attributes.
Element(local_name, id, classes, hints, state) ==
    [local_name |-> local_name, id |-> id, classes |-> classes,
     hints |-> hints, state |-> state]

Elements ==
    { Element("div", <<"x">>, <<"a", "b">>, <<>>, "none"),
      Element("div", <<>>, <<>>, <<"hint.bgcolor">>, "hover"),
      Element("span", <<>>, <<"a">>, <<>>, "none") }

\* Option<&PropertyDeclarationBlock>: the style attribute.
PropertyDeclarationBlock(normal, important) ==
    [normal |-> normal, important |-> important]

StyleAttributes ==
    { <<>>,
      <<PropertyDeclarationBlock(<<"sa.n">>, <<"sa.i">>)>>,
      <<PropertyDeclarationBlock(<<"sa.only.n">>, <<>>)>> }

(***************************************************************************)
(* selectors::matching: DeclarationBlock, Rule and SelectorMap.            *)
(***************************************************************************)
DeclarationBlock(specificity, declarations, source_order) ==
    [specificity  |-> specificity,
     declarations |-> declarations,
     source_order |-> source_order]

\* DeclarationBlock::from_declarations
from_declarations(declarations) == DeclarationBlock(0, declarations, 0)

Rule(selector, declarations) ==
    [selector |-> selector, declarations |-> declarations]

\* SelectorMap::new. Each hash keeps its rules in insertion order; a lookup
\* selects the rules filed under the key.
SelectorMap_new ==
    [id_hash |-> <<>>, class_hash |-> <<>>, local_name_hash |-> <<>>,
     other_rules |-> <<>>]

\* SelectorMap::insert: file the rule under its id, else its class, else its
\* local name, else with the other rules.
SelectorMap_insert(map, rule) ==
    CASE rule.selector.kind = "id" ->
           [map EXCEPT !.id_hash = Append(@, rule)]
      [] rule.selector.kind = "class" ->
           [map EXCEPT !.class_hash = Append(@, rule)]
      [] rule.selector.kind = "tag" ->
           [map EXCEPT !.local_name_hash = Append(@, rule)]
      [] OTHER ->
           [map EXCEPT !.other_rules = Append(@, rule)]

\* Every rule of a map, whatever hash it is filed in.
SelectorMap_rules(map) ==
    map.id_hash \o map.class_hash \o map.local_name_hash \o map.other_rules

\* matches_compound_selector for a compound of at most one simple selector
\* and one state pseudo-class.
matches(compound, element) ==
    /\ CASE compound.kind = "id"    -> element.id = <<compound.name>>
         [] compound.kind = "class" -> compound.name \in Range(element.classes)
         [] compound.kind = "tag"   -> element.local_name = compound.name
         [] OTHER                   -> TRUE
    /\ (compound.state = "none" \/ compound.state = element.state)

\* compare: by specificity, then by source order.
BlockLeq(a, b) ==
    \/ a.specificity < b.specificity
    \/ a.specificity = b.specificity /\ a.source_order <= b.source_order

\* A stable insertion sort (slice::sort_by is stable).
RECURSIVE InsertSorted(_, _)
InsertSorted(sorted, b) ==
    IF sorted = <<>> THEN <<b>>
    ELSE IF BlockLeq(sorted[Len(sorted)], b) THEN Append(sorted, b)
    ELSE Append(InsertSorted(SubSeq(sorted, 1, Len(sorted) - 1), b),
                sorted[Len(sorted)])

RECURSIVE SortBlocks(_)
SortBlocks(blocks) ==
    IF blocks = <<>> THEN <<>>
    ELSE InsertSorted(SortBlocks(SubSeq(blocks, 1, Len(blocks) - 1)),
                      blocks[Len(blocks)])

\* The rules of one hash that are filed under one of the keys and match.
MatchingFrom(hash, keys, element) ==
    SelectSeq(hash, LAMBDA r : r.selector.name \in keys
                               /\ matches(r.selector, element))

\* SelectorMap::get_all_matching_rules: the matching rules of the id hash,
\* of the class hash for each class in turn, of the local-name hash and of
\* the other rules are appended, and the appended part is sorted. Testing
\* an id selector makes the element's style not shareable.
get_all_matching_rules(map, element, acc) ==
    LET byId    == MatchingFrom(map.id_hash, Range(element.id), element)
        byClass == FlattenSeq([i \in 1..Len(element.classes) |->
                     MatchingFrom(map.class_hash, {element.classes[i]}, element)])
        byName  == MatchingFrom(map.local_name_hash, {element.local_name}, element)
        others  == SelectSeq(map.other_rules,
                             LAMBDA r : matches(r.selector, element))
        found   == byId \o byClass \o byName \o others
        testedId == \E i \in 1..Len(map.id_hash) :
                        map.id_hash[i].selector.name \in Range(element.id)
    IN  [declarations |->
            acc.declarations \o
            SortBlocks([i \in 1..Len(found) |-> found[i].declarations]),
         shareable |-> acc.shareable /\ ~testedId]

\* SelectorMap::get_universal_rules: the declarations of the other rules
\* whose selector has no simple selector at all, sorted.
get_universal_rules(map, declarations) ==
    LET found == SelectSeq(map.other_rules,
                           LAMBDA r : r.selector.kind = "universal"
                                      /\ r.selector.state = "none")
    IN  declarations \o SortBlocks([i \in 1..Len(found) |-> found[i].declarations])


(***************************************************************************)
(* PerOriginSelectorMap and PerPseudoElementSelectorMap.                   *)
(***************************************************************************)
PerOriginSelectorMap_new ==
    [normal |-> SelectorMap_new, important |-> SelectorMap_new]

PerPseudoElementSelectorMap_new ==
    [user_agent |-> PerOriginSelectorMap_new,
     author     |-> PerOriginSelectorMap_new,
     user       |-> PerOriginSelectorMap_new]

\* borrow_for_origin with the author and user arms exchanged.
borrow_for_origin_swapped(origin) ==
    CASE origin = "UserAgent" -> "user_agent"
      [] origin = "Author"    -> "user"
      [] origin = "User"      -> "author"

\* PerPseudoElementSelectorMap::borrow_for_origin: the field of the origin.
borrow_for_origin(origin) ==
    CASE origin = "UserAgent" -> "user_agent"
      [] origin = "Author"    -> "author"
      [] origin = "User"      -> "user"

\* A HashMap as a function: insert and remove of one key.
MapInsert(m, k, v) == [x \in DOMAIN m \cup {k} |-> IF x = k THEN v ELSE m[x]]
MapRemove(m, k)    == [x \in DOMAIN m \ {k} |-> m[x]]
EmptyMap           == [x \in {} |-> <<>>]

\* The map every eagerly cascaded pseudo-element has a fresh scope in
\* (Impl::each_eagerly_cascaded_pseudo_element).
EagerScopes == [p \in EagerPseudos |-> PerPseudoElementSelectorMap_new]

(***************************************************************************)
(* Stylist.                                                                *)
(***************************************************************************)
\* Stylist::new with is_device_dirty initialised to false.
Stylist_new_clean(device) ==
    [device                           |-> device,
     viewport_constraints             |-> <<>>,
     quirks_mode                      |-> FALSE,
     is_device_dirty                  |-> FALSE,
     element_map                      |-> PerPseudoElementSelectorMap_new,
     pseudos_map                      |-> EagerScopes,
     precomputed_pseudo_element_decls |-> EmptyMap,
     rules_source_order               |-> 0,
     state_deps                       |-> <<>>]

\* Stylist::new
Stylist_new(device) ==
    [device                           |-> device,
     viewport_constraints             |-> <<>>,
     quirks_mode                      |-> FALSE,
     is_device_dirty                  |-> TRUE,
     element_map                      |-> PerPseudoElementSelectorMap_new,
     pseudos_map                      |-> EagerScopes,
     precomputed_pseudo_element_decls |-> EmptyMap,
     rules_source_order               |-> 0,
     state_deps                       |-> <<>>]

\* One selector of the append! macro: the rule entry of the selector goes to
\* the map of its pseudo-element (created on demand) or to the element map,
\* in the bucket of the stylesheet's origin and of the priority.
InsertSelector(self, stylesheet, style_rule, priority, selector, rules_source_order) ==
    LET origin == borrow_for_origin(stylesheet.origin)
        entry  == Rule(selector.compound_selectors,
                       DeclarationBlock(selector.specificity,
                                        style_rule.declarations[priority],
                                        rules_source_order))
    IN  IF selector.pseudo_element # <<>>
        THEN LET pseudo == selector.pseudo_element[1]
                 scope  == IF pseudo \in DOMAIN self.pseudos_map
                           THEN self.pseudos_map[pseudo]
                           ELSE PerPseudoElementSelectorMap_new
             IN  [self EXCEPT !.pseudos_map =
                     MapInsert(@, pseudo,
                         [scope EXCEPT ![origin][priority] =
                             SelectorMap_insert(@, entry)])]
        ELSE [self EXCEPT !.element_map[origin][priority] =
                             SelectorMap_insert(@, entry)]

RECURSIVE InsertSelectors(_, _, _, _, _, _)
InsertSelectors(self, stylesheet, style_rule, priority, selectors, rules_source_order) ==
    IF selectors = <<>> THEN self
    ELSE LET next == InsertSelector(self, stylesheet, style_rule, priority,
                                    Head(selectors), rules_source_order)
         IN  IF Evaluated(next)
             THEN InsertSelectors(next, stylesheet, style_rule, priority,
                                  Tail(selectors), rules_source_order)
             ELSE self

\* The append! macro without its test of the declarations.
append_always(self, stylesheet, style_rule, priority, rules_source_order) ==
    InsertSelectors(self, stylesheet, style_rule, priority,
                    style_rule.selectors, rules_source_order)

\* The append! macro: nothing when the rule has no declaration of the
\* priority, else one entry per selector.
append(self, stylesheet, style_rule, priority, rules_source_order) ==
    IF style_rule.declarations[priority] = <<>> THEN self
    ELSE InsertSelectors(self, stylesheet, style_rule, priority,
                         style_rule.selectors, rules_source_order)

\* DependencySet::note_selector: a selector that tests element state leaves
\* one dependency.
note_selector(state_deps, compound) ==
    IF compound.state = "none" THEN state_deps
    ELSE Append(state_deps, [selector |-> compound, state |-> compound.state])

RECURSIVE NoteSelectors(_, _)
NoteSelectors(state_deps, selectors) ==
    IF selectors = <<>> THEN state_deps
    ELSE LET next == note_selector(state_deps, Head(selectors).compound_selectors)
         IN  IF Evaluated(next) THEN NoteSelectors(next, Tail(selectors))
             ELSE state_deps

\* One turn of the loop without the increment of rules_source_order.
AddStyleRule_no_increment(self, stylesheet, style_rule) ==
    LET order   == self.rules_source_order
        normal  == append(self, stylesheet, style_rule, "normal", order)
        both    == append(normal, stylesheet, style_rule, "important", order)
    IN  [both EXCEPT !.state_deps = NoteSelectors(@, style_rule.selectors)]

\* One turn of the loop with rules_source_order advanced by the number of
\* selectors of the rule.
AddStyleRule_counts_selectors(self, stylesheet, style_rule) ==
    LET order   == self.rules_source_order
        normal  == append(self, stylesheet, style_rule, "normal", order)
        both    == append(normal, stylesheet, style_rule, "important", order)
    IN  [both EXCEPT !.rules_source_order = order + Len(style_rule.selectors),
                     !.state_deps = NoteSelectors(@, style_rule.selectors)]

\* One turn of the loop over the style rules of add_stylesheet. The running
\* rules_source_order is kept in the stylist record here, where the code
\* keeps it in a local that it stores back after the loop.
AddStyleRule(self, stylesheet, style_rule) ==
    LET order   == self.rules_source_order
        normal  == append(self, stylesheet, style_rule, "normal", order)
        both    == append(normal, stylesheet, style_rule, "important", order)
    IN  [both EXCEPT !.rules_source_order = order + 1,
                     !.state_deps = NoteSelectors(@, style_rule.selectors)]

RECURSIVE AddStyleRules(_, _, _)
AddStyleRules(self, stylesheet, style_rules) ==
    IF style_rules = <<>> THEN self
    ELSE LET next == AddStyleRule(self, stylesheet, Head(style_rules))
         IN  IF Evaluated(next)
             THEN AddStyleRules(next, stylesheet, Tail(style_rules))
             ELSE self

\* The closure with the universal rules of every origin.
PrecomputePseudo_every_origin(self, pseudo) ==
    IF pseudo \in DOMAIN self.pseudos_map
    THEN LET map          == self.pseudos_map[pseudo]
             ua           == get_universal_rules(map.user_agent.important,
                                 get_universal_rules(map.user_agent.normal, <<>>))
             user         == get_universal_rules(map.user.important,
                                 get_universal_rules(map.user.normal, ua))
             declarations == get_universal_rules(map.author.important,
                                 get_universal_rules(map.author.normal, user))
         IN  [self EXCEPT
                !.pseudos_map = MapRemove(@, pseudo),
                !.precomputed_pseudo_element_decls = MapInsert(@, pseudo, declarations)]
    ELSE self

\* The closure of each_precomputed_pseudo_element in add_stylesheet: a scope
\* of the pseudo-element is taken out of pseudos_map and the universal
\* user-agent rules of it, normal then important, replace the cached list.
PrecomputePseudo(self, pseudo) ==
    IF pseudo \in DOMAIN self.pseudos_map
    THEN LET map          == self.pseudos_map[pseudo]
             normal       == get_universal_rules(map.user_agent.normal, <<>>)
             declarations == get_universal_rules(map.user_agent.important, normal)
         IN  [self EXCEPT
                !.pseudos_map = MapRemove(@, pseudo),
                !.precomputed_pseudo_element_decls = MapInsert(@, pseudo, declarations)]
    ELSE self

RECURSIVE PrecomputePseudos(_, _)
PrecomputePseudos(self, pseudos) ==
    IF pseudos = {} THEN self
    ELSE LET p    == CHOOSE x \in pseudos : TRUE
             next == PrecomputePseudo(self, p)
         IN  IF Evaluated(next) THEN PrecomputePseudos(next, pseudos \ {p})
             ELSE self

\* add_stylesheet with the running source order started at 0 in each sheet.
add_stylesheet_counter_reset(self, stylesheet) ==
    IF ~is_effective_for_device(stylesheet, self.device) THEN self
    ELSE PrecomputePseudos(
             AddStyleRules([self EXCEPT !.rules_source_order = 0], stylesheet,
                           style(effective_rules(stylesheet, self.device))),
             PrecomputedPseudos)

\* add_stylesheet without the test of the stylesheet's media list.
add_stylesheet_unchecked(self, stylesheet) ==
    PrecomputePseudos(
        AddStyleRules(self, stylesheet,
                      style(effective_rules(stylesheet, self.device))),
        PrecomputedPseudos)

\* Stylist::add_stylesheet
add_stylesheet(self, stylesheet) ==
    IF ~is_effective_for_device(stylesheet, self.device) THEN self
    ELSE PrecomputePseudos(
             AddStyleRules(self, stylesheet,
                           style(effective_rules(stylesheet, self.device))),
             PrecomputedPseudos)

RECURSIVE AddStylesheets(_, _)
AddStylesheets(self, stylesheets) ==
    IF stylesheets = <<>> THEN self
    ELSE LET next == add_stylesheet(self, Head(stylesheets))
         IN  IF Evaluated(next) THEN AddStylesheets(next, Tail(stylesheets))
             ELSE self

\* The start of a rebuild without the reset of rules_source_order.
ClearForUpdate_keeps_counter(self) ==
    [self EXCEPT !.element_map = PerPseudoElementSelectorMap_new,
                 !.pseudos_map = EagerScopes,
                 !.precomputed_pseudo_element_decls = EmptyMap,
                 !.state_deps = <<>>]

\* The start of a rebuild without the scopes of the eagerly cascaded
\* pseudo-elements.
ClearForUpdate_no_eager_scopes(self) ==
    [self EXCEPT !.element_map = PerPseudoElementSelectorMap_new,
                 !.pseudos_map = EmptyMap,
                 !.precomputed_pseudo_element_decls = EmptyMap,
                 !.rules_source_order = 0,
                 !.state_deps = <<>>]

\* The start of a rebuild without the clearing of the dependency set.
ClearForUpdate_keeps_state_deps(self) ==
    [self EXCEPT !.element_map = PerPseudoElementSelectorMap_new,
                 !.pseudos_map = EagerScopes,
                 !.precomputed_pseudo_element_decls = EmptyMap,
                 !.rules_source_order = 0]

\* The start of a rebuild: every index, the cache, the counter and the
\* dependency set are emptied.
ClearForUpdate(self) ==
    [self EXCEPT !.element_map = PerPseudoElementSelectorMap_new,
                 !.pseudos_map = EagerScopes,
                 !.precomputed_pseudo_element_decls = EmptyMap,
                 !.rules_source_order = 0,
                 !.state_deps = <<>>]

\* The stylesheets of a rebuild that loads every one it needs, in the order
\* update adds them.
SheetsOfUpdate(quirks_mode, doc_stylesheets) ==
    UserOrUserAgentSheets
    \o (IF quirks_mode THEN <<QuirksModeSheet>> ELSE <<>>)
    \o doc_stylesheets

\* The outcome of an update call that returns: the stylist it leaves and the
\* value returned.
Returned(self, result) ==
    [stylist |-> self, result |-> result, exit |-> FALSE, error |-> "none"]

\* The outcome of an update call in which the first use of a lazy static
\* ends the process: the stylist as the rebuild had made it by then.
Exited(self, error) ==
    [stylist |-> self, result |-> FALSE, exit |-> TRUE, error |-> error]

\* A rebuild in which a resource file cannot be read: the user-agent
\* stylesheets are loaded once the indexes are cleared, the quirks-mode
\* stylesheet once the user-agent and user stylesheets are added.
ExitOfUpdate(self) ==
    IF USER_OR_USER_AGENT_STYLESHEETS.exit
    THEN Exited(ClearForUpdate(self), USER_OR_USER_AGENT_STYLESHEETS.error)
    ELSE Exited(AddStylesheets(ClearForUpdate(self),
                               USER_OR_USER_AGENT_STYLESHEETS.value),
                QUIRKS_MODE_STYLESHEET.error)

\* Some stylesheet a rebuild of self needs cannot be loaded.
UpdateExits(self) ==
    \/ USER_OR_USER_AGENT_STYLESHEETS.exit
    \/ self.quirks_mode /\ QUIRKS_MODE_STYLESHEET.exit

\* update that leaves is_device_dirty as it found it.
update_keeps_dirty(self, doc_stylesheets, stylesheets_changed) ==
    IF ~(self.is_device_dirty \/ stylesheets_changed)
    THEN Returned(self, FALSE)
    ELSE IF UpdateExits(self)
    THEN ExitOfUpdate(self)
    ELSE Returned(AddStylesheets(ClearForUpdate(self),
                      SheetsOfUpdate(self.quirks_mode, doc_stylesheets)),
                  TRUE)

\* update without the early return.
update_always(self, doc_stylesheets, stylesheets_changed) ==
    IF UpdateExits(self)
    THEN ExitOfUpdate(self)
    ELSE Returned([AddStylesheets(ClearForUpdate(self),
                       SheetsOfUpdate(self.quirks_mode, doc_stylesheets))
                   EXCEPT !.is_device_dirty = FALSE],
                  TRUE)

\* Stylist::update: the stylist after the call and the value returned, or
\* the exit of the process when a stylesheet of the rebuild cannot be
\* loaded.
update(self, doc_stylesheets, stylesheets_changed) ==
    IF ~(self.is_device_dirty \/ stylesheets_changed)
    THEN Returned(self, FALSE)
    ELSE IF UpdateExits(self)
    THEN ExitOfUpdate(self)
    ELSE Returned([AddStylesheets(ClearForUpdate(self),
                       SheetsOfUpdate(self.quirks_mode, doc_stylesheets))
                   EXCEPT !.is_device_dirty = FALSE],
                  TRUE)


\* set_device with = where the code has |= on is_device_dirty.
set_device_assigns(self, device, stylesheets) ==
    LET cascaded_rule ==
            FlattenSeq([i \in 1..Len(stylesheets) |->
                viewport(effective_rules(stylesheets[i], self.device))])
        constraints == ViewportConstraints_maybe_new(cascaded_rule)
        new_device  == IF constraints # <<>> THEN Device(constraints[1].size)
                       ELSE device
        changed ==
            \E i \in 1..Len(stylesheets) :
                \E media_rule \in Range(media(rules(stylesheets[i]))) :
                    MediaEvaluate(media_rule.query, self.device)
                        # MediaEvaluate(media_rule.query, new_device)
    IN  [self EXCEPT !.viewport_constraints = constraints,
                     !.is_device_dirty = changed,
                     !.device = new_device]

\* Stylist::set_device
set_device(self, device, stylesheets) ==
    LET cascaded_rule ==
            FlattenSeq([i \in 1..Len(stylesheets) |->
                viewport(effective_rules(stylesheets[i], self.device))])
        constraints == ViewportConstraints_maybe_new(cascaded_rule)
        new_device  == IF constraints # <<>> THEN Device(constraints[1].size)
                       ELSE device
        changed ==
            \E i \in 1..Len(stylesheets) :
                \E media_rule \in Range(media(rules(stylesheets[i]))) :
                    MediaEvaluate(media_rule.query, self.device)
                        # MediaEvaluate(media_rule.query, new_device)
    IN  [self EXCEPT !.viewport_constraints = constraints,
                     !.is_device_dirty = @ \/ changed,
                     !.device = new_device]

\* Stylist::set_quirks_mode
set_quirks_mode(self, enabled) == [self EXCEPT !.quirks_mode = enabled]

\* PresentationalHintsSynthetizer::synthesize_presentational_hints_for_legacy_attributes
synthesize_presentational_hints(element, declarations) ==
    declarations \o
    [i \in 1..Len(element.hints) |-> from_declarations(<<element.hints[i]>>)]

\* The result of a call that fails an assertion or an unwrap.
Panic(reason) ==
    [panicked |-> TRUE, reason |-> reason,
     applicable_declarations |-> <<>>, shareable |-> FALSE,
     shareable_steps |-> <<>>]

\* The opening assertions with the second one written with && for ||.
PushPanicReason_and(self, style_attribute, pseudo_element, debug_assertions) ==
    IF self.is_device_dirty
    THEN "device_dirty"
    ELSE IF ~(style_attribute = <<>> /\ pseudo_element = <<>>)
    THEN "style_attribute_with_pseudo"
    ELSE "none"

\* The assertions and the unwrap that open push_applicable_declarations: the
\* first one that fails, or "none". The third is a debug_assert!, which only
\* a build with debug assertions makes; in a build without them the lookup
\* of a precomputed pseudo-element goes on to the unwrap.
PushPanicReason(self, style_attribute, pseudo_element, debug_assertions) ==
    IF self.is_device_dirty
    THEN "device_dirty"
    ELSE IF ~(style_attribute = <<>> \/ pseudo_element = <<>>)
    THEN "style_attribute_with_pseudo"
    ELSE IF /\ debug_assertions
            /\ pseudo_element # <<>>
            /\ pseudo_element[1] \in PrecomputedPseudos
    THEN "precomputed_pseudo"
    ELSE IF pseudo_element # <<>> /\ pseudo_element[1] \notin DOMAIN self.pseudos_map
    THEN "missing_scope"
    ELSE "none"

\* The list and the shareable flag of a lookup before step 1, with the
\* values the flag has had.
PushStart ==
    [declarations |-> <<>>, shareable |-> TRUE, shareable_steps |-> <<TRUE>>]

\* One query of a SelectorMap in push_applicable_declarations: the matching
\* rules are appended and the flag is updated through &mut shareable.
QueryStep(selector_map, element, acc) ==
    LET r == get_all_matching_rules(selector_map, element,
                 [declarations |-> acc.declarations, shareable |-> acc.shareable])
    IN  [declarations    |-> r.declarations,
         shareable       |-> r.shareable,
         shareable_steps |-> Append(acc.shareable_steps, r.shareable)]

\* Step 2 without the test of the length of the list.
HintsStep_keeps_shareable(element, acc) ==
    [declarations    |-> synthesize_presentational_hints(element, acc.declarations),
     shareable       |-> acc.shareable,
     shareable_steps |-> Append(acc.shareable_steps, acc.shareable)]

\* Step 2: Presentational hints. The style is not shareable when the list
\* has grown.
HintsStep(element, acc) ==
    LET hinted    == synthesize_presentational_hints(element, acc.declarations)
        shareable == IF Len(hinted) # Len(acc.declarations) THEN FALSE
                     ELSE acc.shareable
    IN  [declarations    |-> hinted,
         shareable       |-> shareable,
         shareable_steps |-> Append(acc.shareable_steps, shareable)]

\* Steps 4 and 6: style_attribute.map(..) pushes the block of the priority
\* and clears the flag; nothing happens when there is no style attribute.
StyleAttributeStep(style_attribute, priority, acc) ==
    IF style_attribute = <<>>
    THEN [acc EXCEPT !.shareable_steps = Append(@, acc.shareable)]
    ELSE [declarations    |-> Append(acc.declarations,
                                from_declarations(style_attribute[1][priority])),
          shareable       |-> FALSE,
          shareable_steps |-> Append(acc.shareable_steps, FALSE)]

\* What a lookup that returns leaves: the caller's list and the flag, with
\* the values of the flag before step 1 and after each query or push.
PushResult(acc) ==
    [panicked |-> FALSE, reason |-> "none",
     applicable_declarations |-> acc.declarations,
     shareable |-> acc.shareable,
     shareable_steps |-> acc.shareable_steps]

\* The steps with the author !important map queried again in step 7 where
\* the user !important map is meant.
PushSteps_author_twice(map, element, style_attribute) ==
    LET s1  == QueryStep(map.user_agent.normal, element, PushStart)
        s2  == HintsStep(element, s1)
        s3u == QueryStep(map.user.normal, element, s2)
        s3  == QueryStep(map.author.normal, element, s3u)
        s4  == StyleAttributeStep(style_attribute, "normal", s3)
        s5  == QueryStep(map.author.important, element, s4)
        s6  == StyleAttributeStep(style_attribute, "important", s5)
        s7u == QueryStep(map.author.important, element, s6)
        s7  == QueryStep(map.user_agent.important, element, s7u)
    IN  PushResult(s7)

\* The steps with the style attribute's normal block pushed before the
\* author normal rules are queried.
PushSteps_style_attribute_early(map, element, style_attribute) ==
    LET s1  == QueryStep(map.user_agent.normal, element, PushStart)
        s2  == HintsStep(element, s1)
        s3u == QueryStep(map.user.normal, element, s2)
        s3  == StyleAttributeStep(style_attribute, "normal", s3u)
        s4  == QueryStep(map.author.normal, element, s3)
        s5  == QueryStep(map.author.important, element, s4)
        s6  == StyleAttributeStep(style_attribute, "important", s5)
        s7u == QueryStep(map.user.important, element, s6)
        s7  == QueryStep(map.user_agent.important, element, s7u)
    IN  PushResult(s7)

\* The steps of push_applicable_declarations on the scope map, the caller's
\* list being empty: the list after the call and the value returned.
PushSteps(map, element, style_attribute) ==
    LET \* Step 1: Normal user-agent rules.
        s1  == QueryStep(map.user_agent.normal, element, PushStart)
        \* Step 2: Presentational hints.
        s2  == HintsStep(element, s1)
        \* Step 3: User and author normal rules.
        s3u == QueryStep(map.user.normal, element, s2)
        s3  == QueryStep(map.author.normal, element, s3u)
        \* Step 4: Normal style attributes.
        s4  == StyleAttributeStep(style_attribute, "normal", s3)
        \* Step 5: Author-supplied !important rules.
        s5  == QueryStep(map.author.important, element, s4)
        \* Step 6: !important style attributes.
        s6  == StyleAttributeStep(style_attribute, "important", s5)
        \* Step 7: User and UA !important rules.
        s7u == QueryStep(map.user.important, element, s6)
        s7  == QueryStep(map.user_agent.important, element, s7u)
    IN  PushResult(s7)

\* Stylist::push_applicable_declarations
push_applicable_declarations(self, element, style_attribute, pseudo_element, debug_assertions) ==
    LET reason == PushPanicReason(self, style_attribute, pseudo_element,
                                  debug_assertions)
    IN  IF reason # "none" THEN Panic(reason)
        ELSE PushSteps(IF pseudo_element # <<>>
                       THEN self.pseudos_map[pseudo_element[1]]
                       ELSE self.element_map,
                       element, style_attribute)

\* properties::cascade: the computed values are a function of the list of
\* declaration blocks and of the parent's values (an Option: <<>> is None),
\* kept here as the list.
cascade(declarations, parent) ==
    [declarations |-> declarations, parent |-> parent]

\* The computed values of the parent a caller passes: those of a cascade of
\* the parent's own declarations.
ParentStyle == cascade(<<from_declarations(<<"parent.n">>)>>, <<>>)

\* The end of lazily_compute_pseudo_element_style: the list the lookup has
\* collected is cascaded against the parent; a lookup that panicked returns
\* nothing.
CascadePushed(pushed, parent) ==
    IF pushed.panicked
    THEN [panicked |-> TRUE, reason |-> pushed.reason, computed |-> <<>>]
    ELSE [panicked |-> FALSE, reason |-> "none",
          computed |-> <<cascade(pushed.applicable_declarations, <<parent>>)>>]

\* The outcome of a call that computes a style: an Option (<<>> is None),
\* or a panic.
Computed(computed) ==
    [panicked |-> FALSE, reason |-> "none", computed |-> computed]

PanicOfStyle(reason) ==
    [panicked |-> TRUE, reason |-> reason, computed |-> <<>>]

\* lazily_compute_pseudo_element_style without the early return on a
\* missing scope.
lazily_compute_pseudo_element_style_unguarded(self, element, pseudo, parent, debug_assertions) ==
    IF debug_assertions /\ pseudo \notin LazyPseudos
    THEN PanicOfStyle("not_lazy")
    ELSE CascadePushed(
             push_applicable_declarations(self, element, <<>>, <<pseudo>>,
                                          debug_assertions),
             parent)

\* Stylist::lazily_compute_pseudo_element_style: the debug_assert! that the
\* pseudo-element is lazily cascaded, which only a build with debug
\* assertions makes; then None when pseudos_map has no scope of it, else
\* the cascade of what push_applicable_declarations collects from an empty
\* list with no style attribute. The assertions of that call can fail.
lazily_compute_pseudo_element_style(self, element, pseudo, parent, debug_assertions) ==
    IF debug_assertions /\ pseudo \notin LazyPseudos
    THEN PanicOfStyle("not_lazy")
    ELSE IF pseudo \notin DOMAIN self.pseudos_map
    THEN Computed(<<>>)
    ELSE CascadePushed(
             push_applicable_declarations(self, element, <<>>, <<pseudo>>,
                                          debug_assertions),
             parent)

\* precomputed_values_for_pseudo that cascades an empty list when no list
\* is cached.
precomputed_values_for_pseudo_or_empty(self, pseudo, parent, debug_assertions) ==
    IF debug_assertions /\ pseudo \notin PrecomputedPseudos
    THEN PanicOfStyle("not_precomputed")
    ELSE IF pseudo \in DOMAIN self.precomputed_pseudo_element_decls
    THEN Computed(<<cascade(self.precomputed_pseudo_element_decls[pseudo],
                            parent)>>)
    ELSE Computed(<<cascade(<<>>, parent)>>)

\* Stylist::precomputed_values_for_pseudo: the debug_assert! that the
\* pseudo-element is precomputed, which only a build with debug assertions
\* makes; parent is an Option. With a cached list the cascade of it against
\* the parent, else the parent.
precomputed_values_for_pseudo(self, pseudo, parent, debug_assertions) ==
    IF debug_assertions /\ pseudo \notin PrecomputedPseudos
    THEN PanicOfStyle("not_precomputed")
    ELSE IF pseudo \in DOMAIN self.precomputed_pseudo_element_decls
    THEN Computed(<<cascade(self.precomputed_pseudo_element_decls[pseudo],
                            parent)>>)
    ELSE Computed(parent)

\* ElementState snapshots: <<>> is a snapshot without a state, <<s>> one
\* that kept the state s the element had.
Snapshots == {<<>>, <<"none">>, <<"hover">>}

\* DependencySet::compute_hint: a dependency whose state is among the
\* changed ones and whose selector matched the element as the snapshot has
\* it otherwise than it matches it now asks for a restyle of the element.
compute_hint(state_deps, element, snapshot, current_state) ==
    IF \E i \in 1..Len(state_deps) :
          /\ snapshot # <<>>
          /\ snapshot[1] # current_state
          /\ state_deps[i].state \in {snapshot[1], current_state}
          /\ matches(state_deps[i].selector,
                     [element EXCEPT !.state = snapshot[1]])
             # matches(state_deps[i].selector,
                       [element EXCEPT !.state = current_state])
    THEN {"RESTYLE_SELF"}
    ELSE {}

\* Stylist::compute_restyle_hint
compute_restyle_hint(self, element, snapshot, current_state) ==
    compute_hint(self.state_deps, element, snapshot, current_state)

(***************************************************************************)
(* layout_interface.rs: ScriptReflow and its script_join_chan.             *)
(***************************************************************************)
ReflowIds == 1..MaxReflows

\* A channel of (): whether its Receiver is still there, and how many
\* values were sent on it.
Channel == [receiver |-> "open", sent |-> 0]

\* Sender::send: Err, with nothing sent, when the Receiver is gone.
Sender_send(chan) ==
    IF chan.receiver = "open"
    THEN [chan |-> [chan EXCEPT !.sent = @ + 1], result |-> "Ok"]
    ELSE [chan |-> chan, result |-> "Err"]

\* A ScriptReflow: where the value is (not made yet, held by script, inside
\* a Msg::Reflow on its way, held by layout, dropped), its script_join_chan,
\* and whether its drop panicked.
NoReflow == [stage |-> "none", script_join_chan |-> Channel, panicked |-> FALSE]

\* The end of a drop: unwrap() of what send returned panics on Err.
Unwrapped(reflow, r) ==
    [reflow EXCEPT !.stage = "dropped",
                   !.script_join_chan = r.chan,
                   !.panicked = (r.result = "Err")]

\* A drop that ignores what send returned.
ScriptReflow_drop_ignores_result(reflow) ==
    [reflow EXCEPT !.stage = "dropped",
                   !.script_join_chan = Sender_send(@).chan]

\* Drop for ScriptReflow: self.script_join_chan.send(()).unwrap()
ScriptReflow_drop(reflow) ==
    Unwrapped(reflow, Sender_send(reflow.script_join_chan))

(***************************************************************************)
(* The borrows of the stylist. The methods that read it take &self, those  *)
(* that change it take &mut self: a call holds its borrow from its first   *)
(* step to its return, any number of &self borrows are held at once, and   *)
(* an &mut self borrow is held alone.                                      *)
(***************************************************************************)
\* The workers of a parallel traversal, each of which calls the methods
\* that take &self.
Workers == 1..MaxWorkers

\* A worker between two calls.
NoRead == [pc |-> "idle", call |-> <<>>, alone |-> <<>>]

\* The owner of the stylist outside update.
NoRebuild == [pc |-> "idle", doc_stylesheets |-> <<>>, pending |-> <<>>]

\* An &mut self borrow taken while &self borrows are held.
borrow_mut_aliased(reading, rebuilding) == rebuilding.pc = "idle"

\* &mut self can be borrowed when no borrow is held: no worker is inside a
\* call on &self and the owner is not inside update.
borrow_mut(reading, rebuilding) ==
    /\ \A w \in Workers : reading[w].pc = "idle"
    /\ rebuilding.pc = "idle"

\* &self can be borrowed when &mut self is not held.
borrow(rebuilding) == rebuilding.pc = "idle"

(***************************************************************************)
(* The state machine: one stylist, the document stylesheets of its latest  *)
(* rebuild, the latest call made on the stylist, the resource files that   *)
(* can be read, the call each worker is in and the place update is at.     *)
(***************************************************************************)
\* The build of the program: with debug assertions or without them.
Builds == BOOLEAN

\* Which resource files can be read is settled outside the program; each
\* lazy static reads its files once, at its first use.
Init ==
    /\ \E device \in Devices : stylist = Stylist_new(device)
    /\ document_stylesheets = <<>>
    /\ last = [op |-> "new", panicked |-> FALSE, exited |-> FALSE,
               reason |-> "none", changed |-> FALSE, result |-> FALSE]
    /\ script_reflows = [i \in ReflowIds |-> NoReflow]
    /\ resources \in SUBSET ResourceFiles
    /\ readers = [w \in Workers |-> NoRead]
    /\ rebuild = NoRebuild

\* What last keeps of a cascade lookup: whether it panicked and on what,
\* and the value returned.
LastOfLookup(r) ==
    [op |-> "push_applicable_declarations",
     panicked |-> r.panicked, exited |-> FALSE, reason |-> r.reason,
     changed |-> FALSE, result |-> r.shareable]

\* What last keeps of lazily_compute_pseudo_element_style: whether it
\* panicked and on what, and whether a style was returned.
LastOfLazyStyle(r) ==
    [op |-> "lazily_compute_pseudo_element_style",
     panicked |-> r.panicked, exited |-> FALSE, reason |-> r.reason,
     changed |-> FALSE, result |-> r.computed # <<>>]

\* What last keeps of update: the flag passed, whether the call ended the
\* process and with which error, and the value returned.
LastOfUpdate(r, stylesheets_changed) ==
    [op |-> "update", panicked |-> FALSE, exited |-> r.exit,
     reason |-> r.error, changed |-> stylesheets_changed,
     result |-> r.result]

\* A panic ends the thread that owns the stylist, process::exit the
\* process.
Running == ~last.panicked /\ ~last.exited

\* update is passed any list and any flag. document_stylesheets keeps the
\* list of the latest rebuild.
Update ==
    /\ Running
    /\ \E doc_stylesheets \in DocLists, stylesheets_changed \in BOOLEAN :
          LET r == update(stylist, doc_stylesheets, stylesheets_changed)
          IN  /\ stylist' = r.stylist
              /\ last' = LastOfUpdate(r, stylesheets_changed)
              /\ document_stylesheets' = IF r.result THEN doc_stylesheets
                                         ELSE document_stylesheets
    /\ UNCHANGED <<script_reflows, resources,
                 readers, rebuild>>

\* set_device is passed any device and any list.
SetDevice ==
    /\ Running
    /\ \E device \in Devices, stylesheets \in DocLists :
          stylist' = set_device(stylist, device, stylesheets)
    /\ last' = [op |-> "set_device", panicked |-> FALSE, exited |-> FALSE,
                reason |-> "none", changed |-> FALSE, result |-> FALSE]
    /\ UNCHANGED <<document_stylesheets, script_reflows, resources,
                 readers, rebuild>>

SetQuirksMode ==
    /\ Running
    /\ \E enabled \in BOOLEAN : stylist' = set_quirks_mode(stylist, enabled)
    /\ last' = [op |-> "set_quirks_mode", panicked |-> FALSE,
                exited |-> FALSE, reason |-> "none", changed |-> FALSE,
                result |-> FALSE]
    /\ UNCHANGED <<document_stylesheets, script_reflows, resources,
                 readers, rebuild>>

\* A cascade lookup, in either build: the stylist is only read; the call
\* returns or panics.
PushApplicableDeclarations ==
    /\ Running
    /\ \E element \in Elements, style_attribute \in StyleAttributes,
          pseudo_element \in OptPseudos, debug_assertions \in Builds :
          last' = LastOfLookup(
                      push_applicable_declarations(stylist, element,
                                                   style_attribute, pseudo_element,
                                                   debug_assertions))
    /\ UNCHANGED <<stylist, document_stylesheets, script_reflows, resources,
                 readers, rebuild>>

\* lazily_compute_pseudo_element_style of an element and any
\* pseudo-element, in either build: the stylist is only read; last keeps
\* whether the call panicked and whether a style was returned.
LazilyComputePseudoElementStyle ==
    /\ Running
    /\ \E element \in Elements, pseudo \in PseudoElements,
          debug_assertions \in Builds :
          last' = LastOfLazyStyle(
                      lazily_compute_pseudo_element_style(stylist, element,
                                                          pseudo, ParentStyle,
                                                          debug_assertions))
    /\ UNCHANGED <<stylist, document_stylesheets, script_reflows, resources,
                 readers, rebuild>>

\* What last keeps of precomputed_values_for_pseudo: whether it panicked
\* and on what, and whether a style was returned.
LastOfPrecomputedValues(r) ==
    [op |-> "precomputed_values_for_pseudo", panicked |-> r.panicked,
     exited |-> FALSE, reason |-> r.reason, changed |-> FALSE,
     result |-> r.computed # <<>>]

\* precomputed_values_for_pseudo of any pseudo-element, in either build:
\* the stylist is only read; the call asserts nothing of the device.
PrecomputedValuesForPseudo ==
    /\ Running
    /\ \E pseudo \in PseudoElements, parent \in {<<>>, <<ParentStyle>>},
          debug_assertions \in Builds :
          last' = LastOfPrecomputedValues(
                      precomputed_values_for_pseudo(stylist, pseudo, parent,
                                                    debug_assertions))
    /\ UNCHANGED <<stylist, document_stylesheets, script_reflows, resources,
                 readers, rebuild>>

\* What last keeps of compute_restyle_hint: whether the hint asks for a
\* restyle.
LastOfRestyleHint(r) ==
    [op |-> "compute_restyle_hint", panicked |-> FALSE, exited |-> FALSE,
     reason |-> "none", changed |-> FALSE, result |-> r # {}]

\* The restyle hint of a state change of an element, whose current state
\* the caller passes: the stylist is only read.
ComputeRestyleHint ==
    /\ Running
    /\ \E element \in Elements, snapshot \in Snapshots :
          last' = LastOfRestyleHint(
                      compute_restyle_hint(stylist, element, snapshot,
                                           element.state))
    /\ UNCHANGED <<stylist, document_stylesheets, script_reflows, resources,
                 readers, rebuild>>

Next ==
    \/ Update
    \/ SetDevice
    \/ SetQuirksMode
    \/ PushApplicableDeclarations
    \/ LazilyComputePseudoElementStyle
    \/ PrecomputedValuesForPseudo
    \/ ComputeRestyleHint

Spec == Init /\ [][Next]_vars

(***************************************************************************)
(* The state machine of the script reflows: the script thread makes a      *)
(* ScriptReflow, sends it to the layout thread inside a Msg::Reflow, the    *)
(* layout thread receives it; whoever holds the value can drop it, and the *)
(* script thread can drop the Receiver of its script_join_chan.            *)
(***************************************************************************)
\* The script thread makes a ScriptReflow with the Sender of a new channel.
NewScriptReflow ==
    /\ \E i \in ReflowIds :
          /\ script_reflows[i].stage = "none"
          /\ script_reflows' = [script_reflows EXCEPT ![i].stage = "script"]
    /\ UNCHANGED <<stylist, document_stylesheets, last, resources,
                 readers, rebuild>>

\* The value is moved into a Msg::Reflow and sent to the layout thread.
SendReflow ==
    /\ \E i \in ReflowIds :
          /\ script_reflows[i].stage = "script"
          /\ script_reflows' = [script_reflows EXCEPT ![i].stage = "message"]
    /\ UNCHANGED <<stylist, document_stylesheets, last, resources,
                 readers, rebuild>>

\* The layout thread takes the message.
ReceiveReflow ==
    /\ \E i \in ReflowIds :
          /\ script_reflows[i].stage = "message"
          /\ script_reflows' = [script_reflows EXCEPT ![i].stage = "layout"]
    /\ UNCHANGED <<stylist, document_stylesheets, last, resources,
                 readers, rebuild>>

\* The Receiver of a script_join_chan is dropped.
DropJoinReceiver ==
    /\ \E i \in ReflowIds :
          /\ script_reflows[i].stage # "none"
          /\ script_reflows[i].script_join_chan.receiver = "open"
          /\ script_reflows' =
                 [script_reflows EXCEPT ![i].script_join_chan.receiver = "gone"]
    /\ UNCHANGED <<stylist, document_stylesheets, last, resources,
                 readers, rebuild>>

\* The value is dropped where it is: by the script thread, with the message
\* that holds it, or by the layout thread.
DropScriptReflow ==
    /\ \E i \in ReflowIds :
          /\ script_reflows[i].stage \in {"script", "message", "layout"}
          /\ script_reflows' =
                 [script_reflows EXCEPT ![i] = ScriptReflow_drop(@)]
    /\ UNCHANGED <<stylist, document_stylesheets, last, resources,
                 readers, rebuild>>

NextReflow ==
    \/ NewScriptReflow
    \/ SendReflow
    \/ ReceiveReflow
    \/ DropJoinReceiver
    \/ DropScriptReflow

SpecReflow == Init /\ [][NextReflow]_vars

(***************************************************************************)
(* The state machine of a parallel traversal: the owner of the stylist     *)
(* calls update, set_device and set_quirks_mode, the workers call the      *)
(* methods that take &self. update is followed through its steps: the      *)
(* reset of the indexes, each add_stylesheet of its three loops, and the   *)
(* reset of is_device_dirty. A read is followed from the borrow of &self   *)
(* to its return. Only process::exit ends every thread.                    *)
(***************************************************************************)
\* The calls a worker makes: the cascade lookup of an element, the style of
\* the lazy pseudo-element of an element, the style of a precomputed
\* pseudo-element against the parent's, and the restyle hint of an element
\* that was hovered.
ReadCalls ==
    {[op |-> "push_applicable_declarations", element |-> e,
      pseudo_element |-> <<>>, parent |-> <<>>, snapshot |-> <<>>] :
         e \in Elements}
    \cup {[op |-> op, element |-> e, pseudo_element |-> <<"selection">>,
           parent |-> <<>>, snapshot |-> <<>>] :
             op \in {"lazily_compute_pseudo_element_style"},
             e \in {x \in Elements : x.id # <<>>}}
    \cup {[op |-> op, element |-> e, pseudo_element |-> <<"details_content">>,
           parent |-> <<ParentStyle>>, snapshot |-> <<>>] :
             op \in {"precomputed_values_for_pseudo"},
             e \in {x \in Elements : x.id # <<>>}}
    \cup {[op |-> op, element |-> e, pseudo_element |-> <<>>,
           parent |-> <<>>, snapshot |-> <<"hover">>] :
             op \in {"compute_restyle_hint"},
             e \in {x \in Elements : x.id # <<>>}}

\* What the call c returns on the stylist self, in a build without debug
\* assertions.
Read(self, c) ==
    CASE c.op = "push_applicable_declarations" ->
             push_applicable_declarations(self, c.element, <<>>,
                                          c.pseudo_element, FALSE)
      [] c.op = "lazily_compute_pseudo_element_style" ->
             lazily_compute_pseudo_element_style(self, c.element,
                                                 c.pseudo_element[1],
                                                 ParentStyle, FALSE)
      [] c.op = "precomputed_values_for_pseudo" ->
             precomputed_values_for_pseudo(self, c.pseudo_element[1],
                                           c.parent, FALSE)
      [] c.op = "compute_restyle_hint" ->
             compute_restyle_hint(self, c.element, c.snapshot,
                                  c.element.state)

\* What last keeps of the call c that returned r.
LastOfRead(c, r) ==
    CASE c.op = "push_applicable_declarations" -> LastOfLookup(r)
      [] c.op = "lazily_compute_pseudo_element_style" -> LastOfLazyStyle(r)
      [] c.op = "precomputed_values_for_pseudo" -> LastOfPrecomputedValues(r)
      [] c.op = "compute_restyle_hint" -> LastOfRestyleHint(r)

\* update, from the borrow of &mut self to the reset of the indexes: the
\* early return, or the indexes emptied and the first loop ahead. last
\* keeps the flag passed.
BeginUpdate ==
    /\ ~last.exited
    /\ borrow_mut(readers, rebuild)
    /\ \E doc_stylesheets \in DocLists, stylesheets_changed \in BOOLEAN :
          IF ~(stylist.is_device_dirty \/ stylesheets_changed)
          THEN /\ last' = LastOfUpdate(Returned(stylist, FALSE),
                                       stylesheets_changed)
               /\ UNCHANGED <<stylist, rebuild>>
          ELSE /\ stylist' = ClearForUpdate(stylist)
               /\ rebuild' = [pc |-> "user_agent",
                              doc_stylesheets |-> doc_stylesheets,
                              pending |-> <<>>]
               /\ last' = LastOfUpdate(Returned(stylist, FALSE),
                                       stylesheets_changed)
    /\ UNCHANGED <<document_stylesheets, script_reflows, resources, readers>>

\* The stylesheets of the loop update is about to enter: the user-agent
\* and user stylesheets, the quirks-mode stylesheet when quirks_mode is
\* set, the document's.
StylesheetsOfLoop ==
    CASE rebuild.pc = "user_agent" -> USER_OR_USER_AGENT_STYLESHEETS
      [] rebuild.pc = "quirks_mode" ->
             IF ~stylist.quirks_mode THEN Loaded(<<>>)
             ELSE IF QUIRKS_MODE_STYLESHEET.exit THEN QUIRKS_MODE_STYLESHEET
             ELSE Loaded(<<QUIRKS_MODE_STYLESHEET.value>>)
      [] rebuild.pc = "documents" -> Loaded(rebuild.doc_stylesheets)

\* update enters its next loop: the first use of a lazy static loads its
\* stylesheets, or ends the process.
EnterLoop ==
    /\ ~last.exited
    /\ rebuild.pc \in {"user_agent", "quirks_mode", "documents"}
    /\ rebuild.pending = <<>>
    /\ IF StylesheetsOfLoop.exit
       THEN /\ last' = LastOfUpdate(Exited(stylist, StylesheetsOfLoop.error),
                                    last.changed)
            /\ UNCHANGED rebuild
       ELSE /\ rebuild' =
                   [rebuild EXCEPT
                       !.pending = StylesheetsOfLoop.value,
                       !.pc = CASE @ = "user_agent" -> "quirks_mode"
                                [] @ = "quirks_mode" -> "documents"
                                [] @ = "documents" -> "is_device_dirty"]
            /\ UNCHANGED last
    /\ UNCHANGED <<stylist, document_stylesheets, script_reflows, resources,
                   readers>>

\* One turn of a loop of update: self.add_stylesheet of the next
\* stylesheet.
AddStylesheet ==
    /\ ~last.exited
    /\ rebuild.pending # <<>>
    /\ stylist' = add_stylesheet(stylist, Head(rebuild.pending))
    /\ rebuild' = [rebuild EXCEPT !.pending = Tail(@)]
    /\ UNCHANGED <<document_stylesheets, last, script_reflows, resources,
                   readers>>

\* The end of update: is_device_dirty is reset, true is returned and the
\* borrow ends.
FinishUpdate ==
    /\ ~last.exited
    /\ rebuild.pc = "is_device_dirty"
    /\ rebuild.pending = <<>>
    /\ stylist' = [stylist EXCEPT !.is_device_dirty = FALSE]
    /\ last' = LastOfUpdate(Returned(stylist', TRUE), last.changed)
    /\ document_stylesheets' = rebuild.doc_stylesheets
    /\ rebuild' = NoRebuild
    /\ UNCHANGED <<script_reflows, resources, readers>>

\* set_device and set_quirks_mode, which borrow &mut self for their few
\* assignments.
OwnerSetDevice ==
    /\ ~last.exited
    /\ borrow_mut(readers, rebuild)
    /\ \E device \in Devices, stylesheets \in DocLists :
          stylist' = set_device(stylist, device, stylesheets)
    /\ last' = [op |-> "set_device", panicked |-> FALSE, exited |-> FALSE,
                reason |-> "none", changed |-> FALSE, result |-> FALSE]
    /\ UNCHANGED <<document_stylesheets, script_reflows, resources,
                   readers, rebuild>>

OwnerSetQuirksMode ==
    /\ ~last.exited
    /\ borrow_mut(readers, rebuild)
    /\ \E enabled \in BOOLEAN : stylist' = set_quirks_mode(stylist, enabled)
    /\ last' = [op |-> "set_quirks_mode", panicked |-> FALSE,
                exited |-> FALSE, reason |-> "none", changed |-> FALSE,
                result |-> FALSE]
    /\ UNCHANGED <<document_stylesheets, script_reflows, resources,
                   readers, rebuild>>

\* A worker borrows &self and starts a call. alone keeps what the call
\* returns when nothing else runs before its return.
BeginRead ==
    /\ ~last.exited
    /\ borrow(rebuild)
    /\ \E w \in Workers, c \in ReadCalls :
          /\ readers[w].pc = "idle"
          /\ readers' = [readers EXCEPT ![w] =
                            [pc |-> "reading", call |-> <<c>>,
                             alone |-> <<Read(stylist, c)>>]]
    /\ UNCHANGED <<stylist, document_stylesheets, last, script_reflows,
                   resources, rebuild>>

\* The call of a worker returns what it reads in the stylist as it is
\* then, or panics, and the borrow ends. A panic unwinds the thread of the
\* worker alone: the other workers and the owner go on, and another thread
\* takes the worker's place.
EndRead ==
    /\ ~last.exited
    /\ \E w \in Workers :
          /\ readers[w].pc = "reading"
          /\ last' = LastOfRead(readers[w].call[1],
                                Read(stylist, readers[w].call[1]))
          /\ readers' = [readers EXCEPT ![w] = NoRead]
    /\ UNCHANGED <<stylist, document_stylesheets, script_reflows, resources,
                   rebuild>>

NextTraversal ==
    \/ BeginUpdate
    \/ EnterLoop
    \/ AddStylesheet
    \/ FinishUpdate
    \/ OwnerSetDevice
    \/ OwnerSetQuirksMode
    \/ BeginRead
    \/ EndRead

SpecTraversal == Init /\ [][NextTraversal]_vars



(***************************************************************************)
(* What the properties below speak of.                                     *)
(***************************************************************************)
\* Every cascade lookup a caller can make on the stylist.
Lookups == Elements \X StyleAttributes \X OptPseudos \X Builds

Lookup(q) == push_applicable_declarations(stylist, q[1], q[2], q[3], q[4])

LookupActed == last.op = "push_applicable_declarations"

\* Every stylesheet a rebuild can be given, and its style rules.
AllSheets ==
    Range(UserOrUserAgentSheets) \cup {QuirksModeSheet}
    \cup DocSheets

StyleRulesOf(sheet) == Range(style(rules(sheet)))

\* The declaration payloads are distinct from rule to rule and from the
\* normal to the important half of a rule, so a payload names its origin
\* and its importance.
RulePayloads ==
    [origin \in {"UserAgent", "User", "Author"}, priority \in {"normal", "important"} |->
        {r.declarations[priority] :
            r \in UNION {StyleRulesOf(sheet) :
                            sheet \in {x \in AllSheets : x.origin = origin}}}
        \ {<<>>}]

IsRulePayload(d, origin, priority) == d \in RulePayloads[origin, priority]

IsHint(b, element) == \E i \in 1..Len(element.hints) : b.declarations = <<element.hints[i]>>

\* The place of a block of a lookup's output in the order in which the code
\* appends: user-agent normal, hints, user normal, author normal, style
\* attribute normal, author important, style attribute important, user
\* important, user-agent important.
CodeRank(b, q) ==
    CASE IsRulePayload(b.declarations, "UserAgent", "normal")    -> 1
      [] IsHint(b, q[1])                                         -> 2
      [] IsRulePayload(b.declarations, "User", "normal")         -> 3
      [] IsRulePayload(b.declarations, "Author", "normal")       -> 4
      [] q[2] # <<>> /\ b.declarations = q[2][1].normal          -> 5
      [] IsRulePayload(b.declarations, "Author", "important")    -> 6
      [] q[2] # <<>> /\ b.declarations = q[2][1].important       -> 7
      [] IsRulePayload(b.declarations, "User", "important")      -> 8
      [] IsRulePayload(b.declarations, "UserAgent", "important") -> 9
      [] OTHER                                                   -> 0

\* The place of a block in the seven-step order that puts the style
\* attribute's important declarations (step 6) before the author, user and
\* user-agent important rules (step 7, in that order).
SevenStepRank(b, q) ==
    CASE CodeRank(b, q) = 6 -> 7
      [] CodeRank(b, q) = 7 -> 6
      [] OTHER              -> CodeRank(b, q)

RanksOf(q) ==
    {CodeRank(Lookup(q).applicable_declarations[i], q) :
        i \in 1..Len(Lookup(q).applicable_declarations)}

(***************************************************************************)
(* C1                                                                      *)
(***************************************************************************)
\* C1 (as stated): the output of every lookup follows the seven-step order,
\* in which the style attribute's important block comes before every
\* important rule block.
C1_SevenStepOrder ==
    \A q \in Lookups :
        LET out == Lookup(q).applicable_declarations
        IN  \A i, j \in 1..Len(out) :
                i < j => SevenStepRank(out[i], q) <= SevenStepRank(out[j], q)

\* C1 (amended): the output of every lookup is ordered user-agent normal,
\* hints, user normal, author normal, style attribute normal, author
\* important rules, style attribute important, user important rules,
\* user-agent important rules; no block of an earlier place follows a block
\* of a later place, and every block has a place.
C1_CascadeOrder ==
    \A q \in Lookups :
        LET out == Lookup(q).applicable_declarations
        IN  /\ \A i \in 1..Len(out) : CodeRank(out[i], q) # 0
            /\ \A i, j \in 1..Len(out) :
                  i < j => CodeRank(out[i], q) <= CodeRank(out[j], q)

\* A lookup has returned from a stylist in which some lookup yields blocks
\* of at least seven places, the author important rules and the style
\* attribute's important block among them.
C1_Witness ==
    /\ LookupActed /\ ~last.panicked
    /\ \E q \in Lookups :
          /\ {6, 7} \subseteq RanksOf(q)
          /\ Cardinality(RanksOf(q)) >= 7

(***************************************************************************)
(* C2                                                                      *)
(***************************************************************************)
Origins == {"user_agent", "user", "author"}
Priorities == {"normal", "important"}

\* The scope map a lookup for the pseudo-element reads.
ScopeOf(pseudo_element) ==
    IF pseudo_element = <<>> THEN stylist.element_map
    ELSE stylist.pseudos_map[pseudo_element[1]]

Positions(out, b) == {i \in 1..Len(out) : out[i] = b}

StrictlyBefore(a, b) ==
    \/ a.specificity < b.specificity
    \/ a.specificity = b.specificity /\ a.source_order < b.source_order

\* C2: in the output of a lookup, of two matching entries of one bucket the
\* one with the lower (specificity, source order) comes first, wherever
\* their blocks occur.
C2_BucketOrder ==
    \A q \in Lookups :
        ~Lookup(q).panicked =>
            LET out == Lookup(q).applicable_declarations
            IN  \A o \in Origins, pr \in Priorities :
                    LET entries == Range(SelectorMap_rules(ScopeOf(q[3])[o][pr]))
                    IN  \A A, B \in entries :
                            ( /\ matches(A.selector, q[1])
                              /\ matches(B.selector, q[1])
                              /\ StrictlyBefore(A.declarations, B.declarations) )
                            => /\ Positions(out, A.declarations) # {}
                               /\ Positions(out, B.declarations) # {}
                               /\ \A i \in Positions(out, A.declarations),
                                     j \in Positions(out, B.declarations) : i < j

\* A lookup has returned from a stylist in which an element matches two
\* entries of one bucket, the one inserted later having the lower
\* specificity.
C2_Witness ==
    /\ LookupActed /\ ~last.panicked
    /\ \E q \in Lookups, o \in Origins, pr \in Priorities :
          /\ ~Lookup(q).panicked
          /\ \E A, B \in Range(SelectorMap_rules(ScopeOf(q[3])[o][pr])) :
                /\ matches(A.selector, q[1]) /\ matches(B.selector, q[1])
                /\ A.declarations.specificity < B.declarations.specificity
                /\ A.declarations.source_order > B.declarations.source_order


(***************************************************************************)
(* C3                                                                      *)
(***************************************************************************)
\* The scope maps of the stylist, and the rule entries of every bucket.
Scopes == {stylist.element_map}
          \cup {stylist.pseudos_map[p] : p \in DOMAIN stylist.pseudos_map}

Buckets == {SelectorMap_rules(scope[o][pr]) :
                scope \in Scopes, o \in Origins, pr \in Priorities}

\* C3 (as stated): no two distinct entries of one bucket have the same
\* (specificity, source order) pair.
C3_DistinctPairs ==
    \A bucket \in Buckets :
        \A i, j \in 1..Len(bucket) :
            i # j =>
                <<bucket[i].declarations.specificity,
                  bucket[i].declarations.source_order>>
                # <<bucket[j].declarations.specificity,
                    bucket[j].declarations.source_order>>

\* C3 (amended): two distinct entries of one bucket have the same source
\* order only when they were made from the same style rule, one for each of
\* its selectors (they then carry the same declarations); entries made from
\* different style rules differ in source order.
C3_SourceOrderPerRule ==
    \A bucket \in Buckets :
        \A i, j \in 1..Len(bucket) :
            bucket[i].declarations.source_order = bucket[j].declarations.source_order
            => bucket[i].declarations.declarations = bucket[j].declarations.declarations

\* A rebuild has left a bucket with two entries of one two-selector rule
\* that agree on (specificity, source order), beside an entry of another
\* rule.
C3_Witness ==
    /\ last.op = "update" /\ last.result
    /\ \E bucket \in Buckets :
          \E i, j, k \in 1..Len(bucket) :
              /\ i # j
              /\ bucket[i].selector # bucket[j].selector
              /\ bucket[i].declarations = bucket[j].declarations
              /\ bucket[k].declarations.declarations
                     # bucket[i].declarations.declarations

(***************************************************************************)
(* C4                                                                      *)
(***************************************************************************)
\* C4: a freshly constructed stylist is dirty, and on a dirty stylist every
\* lookup panics on the first assertion; a lookup made on a dirty stylist
\* has panicked.
C4_DirtyLookupPanics ==
    /\ last.op = "new" => stylist.is_device_dirty
    /\ stylist.is_device_dirty =>
          /\ \A q \in Lookups : /\ Lookup(q).panicked
                                /\ Lookup(q).reason = "device_dirty"
          /\ LookupActed => last.panicked

\* A lookup made before the first update has panicked.
C4_Witness ==
    /\ LookupActed /\ last.panicked /\ last.reason = "device_dirty"
    /\ stylist.rules_source_order = 0
    /\ document_stylesheets = <<>>

(***************************************************************************)
(* C5                                                                      *)
(***************************************************************************)
\* C5: in every state a lookup given both a style attribute and a
\* pseudo-element panics, and the assertion on the two fails for no lookup
\* given at most one of them.
C5_StyleAttributeExclusive ==
    \A q \in Lookups :
        /\ (q[2] # <<>> /\ q[3] # <<>>) => Lookup(q).panicked
        /\ Lookup(q).reason = "style_attribute_with_pseudo"
               => (q[2] # <<>> /\ q[3] # <<>>)

\* A lookup on a stylist that is not dirty has failed the assertion on the
\* style attribute and the pseudo-element.
C5_Witness ==
    /\ LookupActed /\ last.panicked
    /\ last.reason = "style_attribute_with_pseudo"
    /\ ~stylist.is_device_dirty


(***************************************************************************)
(* C6                                                                      *)
(***************************************************************************)
\* The parts of a stylist a rebuild fills.
Indexes(self) ==
    [element_map                      |-> self.element_map,
     pseudos_map                      |-> self.pseudos_map,
     precomputed_pseudo_element_decls |-> self.precomputed_pseudo_element_decls,
     rules_source_order               |-> self.rules_source_order,
     state_deps                       |-> self.state_deps]

\* The indexes hold what a rebuild from the latest rebuild's stylesheets under the
\* stylist's device would produce.
Fresh(self) ==
    Indexes(self) = Indexes(update(self, document_stylesheets, TRUE).stylist)

\* C6: a set_device call made with the stylesheets of the latest rebuild on
\* a stylist that is not dirty and whose indexes are not stale either marks
\* the stylist dirty or leaves the indexes not stale with respect to the
\* new device.
C6_NotDirtyMeansFresh ==
    (~stylist.is_device_dirty /\ Fresh(stylist)) =>
        \A device \in Devices :
            ~set_device(stylist, device, document_stylesheets).is_device_dirty
                => Fresh(set_device(stylist, device, document_stylesheets))

(***************************************************************************)
(* C7                                                                      *)
(***************************************************************************)
\* C7: an update that returns returns true exactly when the stylist was
\* dirty or changed was passed, and leaves the stylist not dirty; a step
\* that clears the dirty flag is an update that rebuilt; on a dirty stylist
\* every lookup is refused.
C7_DirtyFlag ==
    [][ /\ (last'.op = "update" /\ ~last'.exited) =>
              /\ last'.result <=> (stylist.is_device_dirty \/ last'.changed)
              /\ ~stylist'.is_device_dirty
        /\ (stylist.is_device_dirty /\ ~stylist'.is_device_dirty) =>
              (last'.op = "update" /\ last'.result)
        /\ stylist'.is_device_dirty =>
              \A q \in Lookups :
                  push_applicable_declarations(stylist', q[1], q[2], q[3], q[4]).panicked
      ]_vars

\* An update given changed = false has rebuilt, for the stylist was dirty:
\* it was new, or its device had changed since the previous update.
C7_Witness ==
    /\ last.op = "update" /\ last.result /\ ~last.changed
    /\ stylist.rules_source_order > 0
    /\ ~stylist.is_device_dirty

(***************************************************************************)
(* C8                                                                      *)
(***************************************************************************)
\* C8: on a stylist that is not dirty, update with changed = false returns
\* false and the stylist it leaves is the stylist it found, whatever list
\* it is passed, so that every lookup gives what it gave before.
C8_NoOpUpdate ==
    ~stylist.is_device_dirty =>
        \A doc_stylesheets \in DocLists :
            LET r == update(stylist, doc_stylesheets, FALSE)
            IN  /\ ~r.exit
                /\ r.result = FALSE
                /\ r.stylist = stylist

\* An update given changed = false has returned false on a stylist that
\* holds the rules of an earlier rebuild.
C8_Witness ==
    /\ last.op = "update" /\ ~last.exited
    /\ ~last.changed /\ ~last.result
    /\ stylist.rules_source_order > 0
    /\ document_stylesheets # <<>>

(***************************************************************************)
(* C9                                                                      *)
(***************************************************************************)
\* A stylist as constructed, given the device, the viewport constraints and
\* the quirks-mode flag of self.
FreshStylist(self) ==
    [Stylist_new(self.device) EXCEPT
        !.viewport_constraints = self.viewport_constraints,
        !.quirks_mode = self.quirks_mode]

\* C9: the stylist an update that rebuilt leaves is the one the same update
\* makes of a newly constructed stylist with the same device and
\* quirks-mode flag, and a second update(S, true) leaves it as it is.
C9_RebuildIdempotent ==
    (last.op = "update" /\ last.result) =>
        /\ stylist = update(FreshStylist(stylist), document_stylesheets, TRUE).stylist
        /\ update(stylist, document_stylesheets, TRUE).stylist = stylist

\* An update has rebuilt the stylist in quirks mode from two document
\* stylesheets, after a set_device call that left viewport constraints.
C9_Witness ==
    /\ last.op = "update" /\ last.result
    /\ stylist.quirks_mode
    /\ Len(document_stylesheets) = 2
    /\ stylist.viewport_constraints # <<>>

(***************************************************************************)
(* C10                                                                     *)
(***************************************************************************)
\* The style rules a rebuild inserts, in the order of insertion: the sheets
\* in the order built-in, quirks-mode, document; of each sheet that is
\* effective for the device, the effective style rules in their order.
InsertedStyleRules ==
    LET sheets == UserOrUserAgentSheets
                  \o (IF stylist.quirks_mode THEN <<QuirksModeSheet>>
                      ELSE <<>>)
                  \o document_stylesheets
    IN  FlattenSeq([i \in 1..Len(sheets) |->
            IF is_effective_for_device(sheets[i], stylist.device)
            THEN style(effective_rules(sheets[i], stylist.device))
            ELSE <<>>])

\* The places in the sequence of style rules of the rule a block was made
\* from.
PlacesOf(b, style_rules) ==
    {k \in 1..Len(style_rules) :
        \/ style_rules[k].declarations.normal = b.declarations
        \/ style_rules[k].declarations.important = b.declarations}

\* Every block the stylist stores: in a bucket or in the precomputed cache.
StoredBlocks ==
    UNION {{bucket[i].declarations : i \in 1..Len(bucket)} : bucket \in Buckets}
    \cup UNION {Range(stylist.precomputed_pseudo_element_decls[p]) :
                   p \in DOMAIN stylist.precomputed_pseudo_element_decls}

\* C10: after a rebuild every stored block was made from an inserted style
\* rule, the blocks of the first rule inserted carry source order 0, and a
\* block of a rule inserted later carries a strictly larger source order
\* than a block of a rule inserted earlier.
C10_SourceOrderFollowsInsertion ==
    (last.op = "update" /\ last.result) =>
        LET inserted == InsertedStyleRules
            stored   == StoredBlocks
            place    == [b \in stored |-> PlacesOf(b, inserted)]
        IN  \A a \in stored :
                /\ place[a] # {}
                /\ 1 \in place[a] => a.source_order = 0
                /\ \A b \in stored :
                      \A i \in place[a], j \in place[b] :
                          i < j => a.source_order < b.source_order

\* A rebuild in quirks mode has stored blocks of a built-in sheet, of the
\* quirks-mode sheet and of two document sheets.
C10_Witness ==
    /\ last.op = "update" /\ last.result
    /\ stylist.quirks_mode
    /\ Len(document_stylesheets) = 2
    /\ \E a, b, c, d \in StoredBlocks :
          /\ a.declarations = <<"ua.div.n">>
          /\ b.declarations = <<"quirks.div.n">>
          /\ c.declarations = <<"a.x.n">>
          /\ d.declarations = <<"b.hover.i">>
          /\ a.source_order < b.source_order
          /\ b.source_order < c.source_order
          /\ c.source_order < d.source_order

(***************************************************************************)
(* C11                                                                     *)
(***************************************************************************)
\* The origin bucket of a stylesheet origin.
BucketOfOrigin(origin) ==
    CASE origin = "UserAgent" -> "user_agent"
      [] origin = "User"      -> "user"
      [] origin = "Author"    -> "author"

\* The style rules the latest rebuild inserted, each with the bucket of its
\* stylesheet's origin: the effective style rules of the stylesheets that
\* are effective for the device.
InsertedWithOrigin ==
    LET sheets == UserOrUserAgentSheets
                  \o (IF stylist.quirks_mode THEN <<QuirksModeSheet>>
                      ELSE <<>>)
                  \o document_stylesheets
    IN  UNION {{[origin |-> BucketOfOrigin(sheets[i].origin), rule |-> r] :
                   r \in Range(style(effective_rules(sheets[i], stylist.device)))} :
               i \in {k \in 1..Len(sheets) :
                         is_effective_for_device(sheets[k], stylist.device)}}

\* The scopes a selector can name: no pseudo-element, or one.
ScopeKeys == OptPseudos

HasScope(k) == k = <<>> \/ k[1] \in DOMAIN stylist.pseudos_map

\* The bucket (k, o, pr) holds an entry made from the selector and the
\* declarations of the priority of the style rule.
EntryIn(k, o, pr, selector, style_rule) ==
    /\ HasScope(k)
    /\ \E e \in Range(SelectorMap_rules(ScopeOf(k)[o][pr])) :
          /\ e.selector = selector.compound_selectors
          /\ e.declarations.specificity = selector.specificity
          /\ e.declarations.declarations = style_rule.declarations[pr]

\* C11 (as stated): after a rebuild, for every inserted style rule and every
\* selector of it, a bucket holds an entry of the selector exactly when the
\* rule has declarations of the bucket's importance and the bucket is the
\* one of the stylesheet's origin in the scope of the selector's
\* pseudo-element, whatever the pseudo-element.
C11_EveryEntryRouted ==
    (last.op = "update" /\ last.result) =>
        \A x \in InsertedWithOrigin :
            \A i \in 1..Len(x.rule.selectors) :
                \A k \in ScopeKeys, o \in Origins, pr \in Priorities :
                    EntryIn(k, o, pr, x.rule.selectors[i], x.rule)
                    <=> ( /\ x.rule.declarations[pr] # <<>>
                          /\ o = x.origin
                          /\ k = x.rule.selectors[i].pseudo_element )

\* C11 (amended): as stated for the selectors with no pseudo-element or with
\* a pseudo-element that is not precomputed; a selector with a precomputed
\* pseudo-element has no entry in any bucket after the rebuild, and no scope
\* of a precomputed pseudo-element is left in the scope map.
C11_EntryRoutedUnlessPrecomputed ==
    (last.op = "update" /\ last.result) =>
        /\ DOMAIN stylist.pseudos_map \cap PrecomputedPseudos = {}
        /\ \A x \in InsertedWithOrigin :
              \A i \in 1..Len(x.rule.selectors) :
                  \A k \in ScopeKeys, o \in Origins, pr \in Priorities :
                      EntryIn(k, o, pr, x.rule.selectors[i], x.rule)
                      <=> ( /\ x.rule.declarations[pr] # <<>>
                            /\ o = x.origin
                            /\ k = x.rule.selectors[i].pseudo_element
                            /\ (k = <<>> \/ k[1] \notin PrecomputedPseudos) )

\* A rebuild has inserted an author rule with both importance levels, a
\* two-selector rule one selector of which names a lazy pseudo-element, and
\* rules of a precomputed pseudo-element.
C11_Witness ==
    /\ last.op = "update" /\ last.result
    /\ \E x, y, z \in InsertedWithOrigin :
          /\ x.origin = "author"
          /\ EntryIn(<<>>, "author", "normal", x.rule.selectors[1], x.rule)
          /\ EntryIn(<<>>, "author", "important", x.rule.selectors[1], x.rule)
          /\ Len(y.rule.selectors) = 2
          /\ EntryIn(<<"selection">>, "author", "normal", y.rule.selectors[1], y.rule)
          /\ EntryIn(<<>>, "author", "normal", y.rule.selectors[2], y.rule)
          /\ z.rule.selectors[1].pseudo_element = <<"details_content">>

(***************************************************************************)
(* C12                                                                     *)
(***************************************************************************)
\* The stylesheets of a list that are effective for the device.
EffectiveOnly(stylesheets, device) ==
    SelectSeq(stylesheets, LAMBDA x : is_effective_for_device(x, device))

\* The document stylesheets the latest rebuild found not effective.
SkippedSheets ==
    {x \in Range(document_stylesheets) :
        ~is_effective_for_device(x, stylist.device)}

\* The declarations and the selectors of the style rules of a stylesheet.
PayloadsOfSheet(sheet) ==
    UNION {{r.declarations.normal, r.declarations.important} :
              r \in StyleRulesOf(sheet)} \ {<<>>}

SelectorsOfSheet(sheet) ==
    UNION {{r.selectors[i].compound_selectors : i \in 1..Len(r.selectors)} :
              r \in StyleRulesOf(sheet)}

\* C12: after a rebuild no stored block and no dependency comes from a
\* document stylesheet that is not effective for the device, and the
\* indexes are the ones a rebuild from the list without those stylesheets
\* makes.
C12_IneffectiveSheetSkipped ==
    (last.op = "update" /\ last.result) =>
        /\ \A x \in SkippedSheets :
              /\ \A b \in StoredBlocks : b.declarations \notin PayloadsOfSheet(x)
              /\ \A i \in 1..Len(stylist.state_deps) :
                    stylist.state_deps[i].selector \notin SelectorsOfSheet(x)
        /\ Indexes(stylist) =
              Indexes(update(stylist,
                             EffectiveOnly(document_stylesheets, stylist.device),
                             TRUE).stylist)

\* A rebuild was given a stylesheet that is not effective, with a selector
\* that tests element state, followed by one that is effective.
C12_Witness ==
    /\ last.op = "update" /\ last.result
    /\ Len(document_stylesheets) = 2
    /\ document_stylesheets[1] \in SkippedSheets
    /\ \E c \in SelectorsOfSheet(document_stylesheets[1]) : c.state # "none"
    /\ document_stylesheets[2] \notin SkippedSheets
    /\ \E b \in StoredBlocks :
          b.declarations \in PayloadsOfSheet(document_stylesheets[2])

(***************************************************************************)
(* C13                                                                     *)
(***************************************************************************)
\* C13: after a rebuild, for every precomputed pseudo-element the cached
\* list holds the declarations, normal and important, of every universal
\* user-agent rule of the pseudo-element that the rebuild inserted, from
\* whichever effective stylesheet it came.
C13_CacheHoldsEveryRule ==
    (last.op = "update" /\ last.result) =>
        \A p \in PrecomputedPseudos, x \in InsertedWithOrigin :
            \A i \in 1..Len(x.rule.selectors), pr \in Priorities :
                ( /\ x.origin = "user_agent"
                  /\ x.rule.selectors[i].pseudo_element = <<p>>
                  /\ x.rule.selectors[i].compound_selectors = Universal
                  /\ x.rule.declarations[pr] # <<>> )
                => /\ p \in DOMAIN stylist.precomputed_pseudo_element_decls
                   /\ \E b \in Range(stylist.precomputed_pseudo_element_decls[p]) :
                         b.declarations = x.rule.declarations[pr]

(***************************************************************************)
(* C14                                                                     *)
(***************************************************************************)
\* The blocks of the rule entries stored in the scope of a pseudo-element.
BlocksOfScope(pseudo) ==
    UNION {{e.declarations :
               e \in Range(SelectorMap_rules(stylist.pseudos_map[pseudo][o][pr]))} :
           o \in Origins, pr \in Priorities}

\* C14: once a style of a lazy pseudo-element has been computed, for every
\* element and lazy pseudo-element the list that
\* lazily_compute_pseudo_element_style cascades holds only blocks of rule
\* entries stored in the scope of the pseudo-element, whatever hints the
\* element's attributes synthesize.
C14_LazyStyleFromScopeOnly ==
    (last.op = "lazily_compute_pseudo_element_style" /\ last.result) =>
        \A element \in Elements, pseudo \in LazyPseudos,
           debug_assertions \in Builds :
            LET r == lazily_compute_pseudo_element_style(stylist, element,
                                                         pseudo, ParentStyle,
                                                         debug_assertions)
            IN  r.computed # <<>> =>
                    \A b \in Range(r.computed[1].declarations) :
                        b \in BlocksOfScope(pseudo)

(***************************************************************************)
(* C15                                                                     *)
(***************************************************************************)
\* The number of rule entries of a scope map that match an element.
MatchingIn(map, element) ==
    Len(SelectSeq(SelectorMap_rules(map),
                  LAMBDA e : matches(e.selector, element)))

MatchingEntries(scope, element) ==
    MatchingIn(scope.user_agent.normal, element)
    + MatchingIn(scope.user_agent.important, element)
    + MatchingIn(scope.user.normal, element)
    + MatchingIn(scope.user.important, element)
    + MatchingIn(scope.author.normal, element)
    + MatchingIn(scope.author.important, element)

\* The lookups the assertions of push_applicable_declarations allow: no
\* style attribute with a pseudo-element and, in a build with debug
\* assertions, no precomputed pseudo-element.
AllowedLookups ==
    {q \in Lookups :
        /\ q[2] = <<>> \/ q[3] = <<>>
        /\ q[4] => (q[3] = <<>> \/ q[3][1] \notin PrecomputedPseudos)}

\* C15: on a stylist that is not dirty every allowed lookup, for no
\* pseudo-element, an eager or a lazy one (or, in a build without debug
\* assertions, a precomputed one), returns normally, also when no
\* rule matches; with no hints and no style attribute its output has one
\* block for each matching rule entry of the scope.
C15_NoMatchNotError ==
    ~stylist.is_device_dirty =>
        \A q \in AllowedLookups :
            /\ ~Lookup(q).panicked
            /\ (q[1].hints = <<>> /\ q[2] = <<>>) =>
                  Len(Lookup(q).applicable_declarations)
                      = MatchingEntries(ScopeOf(q[3]), q[1])

(***************************************************************************)
(* C16                                                                     *)
(***************************************************************************)
\* C16: in every state the scope map has a scope for each eagerly cascaded
\* pseudo-element, and no lookup for such a pseudo-element fails for a
\* missing scope: on a stylist that is not dirty it returns when no style
\* attribute is given.
C16_EagerScopesExist ==
    /\ EagerPseudos \subseteq DOMAIN stylist.pseudos_map
    /\ \A q \in Lookups :
          (q[3] # <<>> /\ q[3][1] \in EagerPseudos) =>
              /\ Lookup(q).reason # "missing_scope"
              /\ (~stylist.is_device_dirty /\ q[2] = <<>>) => ~Lookup(q).panicked

\* A lookup has returned on a stylist rebuilt from stylesheets none of
\* which has a rule for the eager pseudo-element, after a set_device call
\* and in quirks mode: the scope is there and is empty.
C16_Witness ==
    /\ LookupActed /\ ~last.panicked
    /\ stylist.rules_source_order > 0
    /\ stylist.quirks_mode
    /\ stylist.viewport_constraints # <<>>
    /\ \A p \in EagerPseudos :
          /\ p \in DOMAIN stylist.pseudos_map
          /\ stylist.pseudos_map[p] = PerPseudoElementSelectorMap_new

(***************************************************************************)
(* C17                                                                     *)
(***************************************************************************)
\* Some media rule of the stylesheets, nested or not, evaluates differently
\* under the two devices.
MediaRuleDiffers(stylesheets, old_device, new_device) ==
    \E x \in Range(stylesheets) :
        \E media_rule \in Range(media(rules(x))) :
            MediaEvaluate(media_rule.query, old_device)
                # MediaEvaluate(media_rule.query, new_device)

\* The stylist a set_device call given the stylesheets leaves of self.
SetDeviceDirty(self, stylesheets, after) ==
    /\ after.is_device_dirty
           = ( \/ self.is_device_dirty
               \/ MediaRuleDiffers(stylesheets, self.device, after.device) )
    /\ after.viewport_constraints # <<>> =>
           after.device = Device(after.viewport_constraints[1].size)

\* C17: a set_device call leaves the stylist dirty exactly when it was
\* dirty before or some media rule of the stylesheets passed evaluates
\* differently under the previous device and under the device the call
\* leaves, which has the size of the viewport constraints when there are
\* any.
C17_SetDeviceDirty ==
    \A device \in Devices, stylesheets \in DocLists :
        SetDeviceDirty(stylist, stylesheets,
                       set_device(stylist, device, stylesheets))

\* A set_device call after a rebuild has left viewport constraints and a
\* dirty stylist.
C17_Witness ==
    /\ last.op = "set_device"
    /\ stylist.is_device_dirty
    /\ stylist.rules_source_order > 0
    /\ stylist.viewport_constraints # <<>>

(***************************************************************************)
(* C18                                                                     *)
(***************************************************************************)
\* The declarations of the rules of a stylesheet that name no
\* pseudo-element, which a rebuild files in the element map.
ElementPayloadsOfSheet(sheet) ==
    UNION {{r.declarations.normal, r.declarations.important} :
              r \in {x \in StyleRulesOf(sheet) :
                        \E i \in 1..Len(x.selectors) :
                            x.selectors[i].pseudo_element = <<>>}} \ {<<>>}

\* The blocks stored in the element map.
ElementBlocks ==
    UNION {{e.declarations :
               e \in Range(SelectorMap_rules(stylist.element_map[o][pr]))} :
           o \in Origins, pr \in Priorities}

BlocksOfSheets(sheets) ==
    {b \in ElementBlocks :
        \E x \in sheets : b.declarations \in ElementPayloadsOfSheet(x)}

\* C18: when an update call has returned on a stylist in quirks mode, the
\* element map holds the rules of the quirks-mode stylesheet, with source
\* orders above those of the built-in stylesheets and below those of the
\* document stylesheets; a rebuild made with quirks mode off leaves none of
\* them.
C18_QuirksLoadedByNextUpdate ==
    (last.op = "update" /\ ~last.exited) =>
        LET quirks == BlocksOfSheets({QuirksModeSheet})
        IN  /\ stylist.quirks_mode =>
                  /\ \A d \in ElementPayloadsOfSheet(QuirksModeSheet) :
                        \E b \in quirks : b.declarations = d
                  /\ \A b \in quirks :
                        /\ \A a \in BlocksOfSheets(Range(UserOrUserAgentSheets)) :
                              a.source_order < b.source_order
                        /\ \A c \in BlocksOfSheets(DocSheets) :
                              b.source_order < c.source_order
            /\ (last.result /\ ~stylist.quirks_mode) => quirks = {}

(***************************************************************************)
(* C19                                                                     *)
(***************************************************************************)
\* C19: in every lookup that returns, shareable is true before step 1, is
\* false after step 2 when a hint was appended and after step 4 when a style
\* attribute was given, is never true after a step once it was false after
\* an earlier one, and the value returned is the one after the last step:
\* false whenever a hint was appended or a style attribute was given.
C19_ShareableOnlyFalls ==
    \A q \in Lookups :
        ~Lookup(q).panicked =>
            LET r  == Lookup(q)
                st == r.shareable_steps
            IN  /\ st[1] = TRUE
                /\ \A i, j \in 1..Len(st) : (i < j /\ ~st[i]) => ~st[j]
                /\ r.shareable = st[Len(st)]
                /\ q[1].hints # <<>> => ~st[3]
                /\ q[2] # <<>> => ~st[6]
                /\ (q[1].hints # <<>> \/ q[2] # <<>>) => ~r.shareable

\* A lookup has returned false from a stylist on which one lookup is made
\* not shareable by the hint appended in step 2 alone, one by the style
\* attribute alone, and one returns true.
C19_Witness ==
    /\ LookupActed /\ ~last.panicked /\ ~last.result
    /\ \E q \in Lookups :
          /\ ~Lookup(q).panicked
          /\ q[1].hints # <<>> /\ q[2] = <<>>
          /\ Lookup(q).shareable_steps[2] /\ ~Lookup(q).shareable_steps[3]
    /\ \E q \in Lookups :
          /\ ~Lookup(q).panicked
          /\ q[1].hints = <<>> /\ q[2] # <<>>
          /\ Lookup(q).shareable_steps[5] /\ ~Lookup(q).shareable_steps[6]
    /\ \E q \in Lookups : ~Lookup(q).panicked /\ Lookup(q).shareable

(***************************************************************************)
(* C20                                                                     *)
(***************************************************************************)
\* C20: in the output of a lookup given a style attribute, the block of the
\* attribute's normal declarations is there once, after every user-agent,
\* user and author normal rule block and before every important rule block
\* of any origin.
C20_StyleAttributeNormalPlace ==
    \A q \in Lookups :
        (q[2] # <<>> /\ ~Lookup(q).panicked) =>
            LET out == Lookup(q).applicable_declarations
                at  == Positions(out, from_declarations(q[2][1].normal))
            IN  /\ Cardinality(at) = 1
                /\ \A k \in at, i \in 1..Len(out) :
                      /\ CodeRank(out[i], q) \in {1, 3, 4} => i < k
                      /\ CodeRank(out[i], q) \in {6, 8, 9} => k < i

\* A lookup has returned from a stylist on which a lookup given a style
\* attribute matches normal and important rules of all three origins.
C20_Witness ==
    /\ LookupActed /\ ~last.panicked
    /\ \E q \in Lookups :
          /\ q[2] # <<>>
          /\ {1, 3, 4, 5, 6, 8, 9} \subseteq RanksOf(q)

(***************************************************************************)
(* C21                                                                     *)
(***************************************************************************)
\* The operations that take the stylist by exclusive reference.
WriteOps == {"update", "set_device", "set_quirks_mode"}

\* The style rules a rebuild of the stylesheets inserts under a device, in
\* the order of insertion, each with the bucket of its stylesheet's origin.
InsertedFor(device, quirks_mode, doc_stylesheets) ==
    LET sheets == SheetsOfUpdate(quirks_mode, doc_stylesheets)
    IN  FlattenSeq([i \in 1..Len(sheets) |->
            IF is_effective_for_device(sheets[i], device)
            THEN LET rs == style(effective_rules(sheets[i], device))
                 IN  [k \in 1..Len(rs) |->
                         [origin |-> BucketOfOrigin(sheets[i].origin),
                          rule   |-> rs[k]]]
            ELSE <<>>])

\* The stylist's indexes hold the style rules ins, inserted in this order:
\* the counter is their number, and every selector of each of them whose
\* pseudo-element is not precomputed has its entry, with the rule's source
\* order, for each importance the rule has declarations of.
HoldsInserted(ins) ==
    /\ stylist.rules_source_order = Len(ins)
    /\ \A n \in 1..Len(ins), pr \in Priorities :
          \A selector \in Range(ins[n].rule.selectors) :
              ( /\ ins[n].rule.declarations[pr] # <<>>
                /\ selector.pseudo_element
                       \notin {<<p>> : p \in PrecomputedPseudos} )
              => /\ HasScope(selector.pseudo_element)
                 /\ \E e \in Range(SelectorMap_rules(
                        ScopeOf(selector.pseudo_element)[ins[n].origin][pr])) :
                       /\ e.selector = selector.compound_selectors
                       /\ e.declarations.declarations
                              = ins[n].rule.declarations[pr]
                       /\ e.declarations.source_order = n - 1

\* The stylist's indexes are those of a whole rebuild of the stylesheets
\* under the device.
CompleteFor(device, quirks_mode, doc_stylesheets) ==
    HoldsInserted(InsertedFor(device, quirks_mode, doc_stylesheets))

\* The indexes are those of a whole rebuild of the latest rebuild's stylesheets
\* under the stylist's device and quirks mode.
CompleteIndexes ==
    CompleteFor(stylist.device, stylist.quirks_mode, document_stylesheets)

\* A worker is inside a call.
InFlight(w) == readers[w].pc = "reading"

NotedSelectors(ins) ==
    LET selectors == FlattenSeq([n \in 1..Len(ins) |-> ins[n].rule.selectors])
        stateful  == SelectSeq(selectors,
                         LAMBDA x : x.compound_selectors.state # "none")
    IN  [i \in 1..Len(stateful) |->
            [selector |-> stateful[i].compound_selectors,
             state    |-> stateful[i].compound_selectors.state]]

\* C22: the dependency set changes only in an update that rebuilds, to its
\* end or until the process ends, so set_device, set_quirks_mode, an update
\* that returns false and every read leave it as it was; and after an
\* update that rebuilt it holds what noting
\* every selector of every style rule inserted from the effective
\* stylesheets of that rebuild leaves in an empty dependency set, nothing of
\* an earlier rebuild.
C22_DependencySetOfRebuild ==
    /\ [][ stylist'.state_deps # stylist.state_deps =>
               (last'.op = "update" /\ (last'.result \/ last'.exited)) ]_vars
    /\ []((last.op = "update" /\ last.result) =>
             stylist.state_deps
                 = NotedSelectors(InsertedFor(stylist.device, stylist.quirks_mode,
                                              document_stylesheets)))

\* An update has rebuilt the stylist from two document stylesheets that
\* each have a selector testing element state: two dependencies.
C22_Witness ==
    /\ last.op = "update" /\ last.result
    /\ Len(stylist.state_deps) = 2
    /\ document_stylesheets = <<DocC, DocB>>

(***************************************************************************)
(* C23                                                                     *)
(***************************************************************************)
\* Some style rule of ins with declarations, normal or important, has a
\* selector of the pseudo-element.
Targeted(ins, pseudo) ==
    \E n \in 1..Len(ins) :
        /\ \/ ins[n].rule.declarations.normal # <<>>
           \/ ins[n].rule.declarations.important # <<>>
        /\ \E selector \in Range(ins[n].rule.selectors) :
              selector.pseudo_element = <<pseudo>>

\* The style rules ins are those of the rebuild the indexes come from, and
\* the lazy pseudo-elements with a scope are those they target.
LazyScopesFollow(ins) ==
    /\ HoldsInserted(ins)
    /\ \A pseudo \in LazyPseudos :
          pseudo \in DOMAIN stylist.pseudos_map <=> Targeted(ins, pseudo)

\* What lazily_compute_pseudo_element_style has returned: nothing, by a
\* return and not by a panic, exactly when the pseudo-element has no scope,
\* and a computed style otherwise.
NothingIffNoScope(r, pseudo) ==
    /\ (~r.panicked /\ r.computed = <<>>)
           <=> pseudo \notin DOMAIN stylist.pseudos_map
    /\ pseudo \in DOMAIN stylist.pseudos_map
           => (~r.panicked /\ r.computed # <<>>)

\* C23: on a stylist that is not dirty, in a process that has not ended,
\* lazily_compute_pseudo_element_style
\* returns nothing exactly when the scope map has no scope of the
\* pseudo-element and a computed style in every other case; and a lazy
\* pseudo-element has a scope exactly when a style rule with declarations,
\* among those the last rebuild inserted from its effective stylesheets, has
\* a selector of it.
C23_LazyStyleIffScope ==
    (~stylist.is_device_dirty /\ ~last.exited) =>
        /\ \A element \in Elements, pseudo \in LazyPseudos,
              debug_assertions \in Builds :
              NothingIffNoScope(
                  lazily_compute_pseudo_element_style(stylist, element,
                                                      pseudo, ParentStyle,
                                                      debug_assertions),
                  pseudo)
        /\ \E device \in Devices, quirks_mode \in BOOLEAN :
              LazyScopesFollow(
                  InsertedFor(device, quirks_mode, document_stylesheets))

\* lazily_compute_pseudo_element_style has returned nothing on a stylist
\* rebuilt from a stylesheet whose one rule of the lazy pseudo-element has no
\* declarations.
C23_Witness ==
    /\ last.op = "lazily_compute_pseudo_element_style"
    /\ ~last.panicked /\ ~last.result
    /\ ~stylist.is_device_dirty
    /\ document_stylesheets = <<DocC>>
    /\ HoldsInserted(InsertedFor(Device(MaxWidth), FALSE, <<DocC>>))

(***************************************************************************)
(* C24                                                                     *)
(***************************************************************************)
\* Option<&Arc<ComputedValues>>: the parent a caller passes.
Parents == {<<>>, <<ParentStyle>>}

\* The pseudo-elements with a cached declaration list.
Cached == DOMAIN stylist.precomputed_pseudo_element_decls

\* precomputed_values_for_pseudo returns the parent exactly when no list is
\* cached for the pseudo-element, and the cascade of the cached list against
\* the parent when there is one.
ParentIffNotCached ==
    \A pseudo \in PrecomputedPseudos, parent \in Parents,
       debug_assertions \in Builds :
        LET r == precomputed_values_for_pseudo(stylist, pseudo, parent,
                                               debug_assertions)
        IN  /\ ~r.panicked
            /\ r.computed = parent <=> pseudo \notin Cached
            /\ pseudo \in Cached =>
                  r.computed
                      = <<cascade(stylist.precomputed_pseudo_element_decls[pseudo],
                                  parent)>>

\* Some style rule of ins, with or without declarations, has a selector of
\* the pseudo-element.
TargetedByAnyRule(ins, pseudo) ==
    \E n \in 1..Len(ins) :
        \E selector \in Range(ins[n].rule.selectors) :
            selector.pseudo_element = <<pseudo>>

\* No rebuild has happened yet: the indexes are those of the constructor.
NeverRebuilt == Indexes(stylist) = Indexes(Stylist_new(stylist.device))

\* The style rules ins are those of the rebuild the indexes come from, and
\* the precomputed pseudo-elements with a cached list are those a rule of
\* ins targets.
CachedAreTargetedByAnyRule(ins) ==
    /\ HoldsInserted(ins)
    /\ \A pseudo \in PrecomputedPseudos :
          pseudo \in Cached <=> TargetedByAnyRule(ins, pseudo)

\* The same with the rules that have declarations.
CachedAreTargeted(ins) ==
    /\ HoldsInserted(ins)
    /\ \A pseudo \in PrecomputedPseudos :
          pseudo \in Cached <=> Targeted(ins, pseudo)

\* C24 (as stated), while the process has not ended:
\* precomputed_values_for_pseudo returns the parent
\* unchanged exactly when no list is cached for the pseudo-element, and the
\* cascade of the cached list against the parent otherwise; and no list is
\* cached exactly when no style rule of the last rebuild targeted the
\* pseudo-element.
C24_CachedIffAnyRuleTargets ==
    /\ ParentIffNotCached
    /\ \/ last.exited
       \/ NeverRebuilt /\ Cached = {}
       \/ \E device \in Devices, quirks_mode \in BOOLEAN :
             CachedAreTargetedByAnyRule(
                 InsertedFor(device, quirks_mode, document_stylesheets))

\* C24 (amended): as stated, with the rules that have declarations: no list
\* is cached exactly when no style rule with normal or important
\* declarations targeted the pseudo-element in the last rebuild.
C24_CachedIffRuleWithDeclarationsTargets ==
    /\ ParentIffNotCached
    /\ \/ last.exited
       \/ NeverRebuilt /\ Cached = {}
       \/ \E device \in Devices, quirks_mode \in BOOLEAN :
             CachedAreTargeted(
                 InsertedFor(device, quirks_mode, document_stylesheets))

\* precomputed_values_for_pseudo was called on a stylist rebuilt from a
\* stylesheet whose one rule of a precomputed pseudo-element has no
\* declarations: that pseudo-element has no cached list, another has one.
C24_Witness ==
    /\ last.op = "precomputed_values_for_pseudo" /\ ~last.panicked
    /\ document_stylesheets = <<DocC>>
    /\ HoldsInserted(InsertedFor(Device(MaxWidth), FALSE, <<DocC>>))
    /\ "servo_anonymous_block" \notin Cached
    /\ "details_content" \in Cached

(***************************************************************************)
(* C25                                                                     *)
(***************************************************************************)
\* C25: after a rebuild the counter is the number of style rules inserted
\* from the effective stylesheets, a rule of several selectors and a rule
\* without declarations counting once each; every selector of the n-th rule
\* has its entry with source order n - 1 in the normal and in the important
\* index, as the rule has declarations; and every stored block made from
\* the n-th rule carries source order n - 1.
C25_CounterCountsStyleRules ==
    (last.op = "update" /\ last.result) =>
        /\ HoldsInserted(InsertedFor(stylist.device, stylist.quirks_mode,
                                     document_stylesheets))
        /\ stylist.rules_source_order = Len(InsertedStyleRules)
        /\ \A b \in StoredBlocks :
              \A n \in PlacesOf(b, InsertedStyleRules) :
                  b.source_order = n - 1

\* A rebuild has inserted a rule of two selectors, a rule with normal and
\* important declarations and a rule of three selectors without
\* declarations; the counter is past the last of them.
C25_Witness ==
    /\ last.op = "update" /\ last.result
    /\ document_stylesheets = <<DocA, DocC>>
    /\ is_effective_for_device(DocC, stylist.device)
    /\ ~stylist.quirks_mode
    /\ stylist.rules_source_order
           = Len(style(rules(UserAgentSheet))) + Len(style(rules(UserSheet)))
             + Len(style(rules(DocA))) + Len(style(rules(DocC)))

(***************************************************************************)
(* C26                                                                     *)
(***************************************************************************)
\* The block is the one made of the declarations of the priority of a
\* universal rule of the pseudo-element in a user-agent stylesheet.
UniversalUserAgentBlock(b, pseudo, pr) ==
    \E sheet \in {x \in AllSheets : x.origin = "UserAgent"} :
        \E r \in StyleRulesOf(sheet) :
            \E selector \in Range(r.selectors) :
                /\ selector.pseudo_element = <<pseudo>>
                /\ selector.compound_selectors = Universal
                /\ r.declarations[pr] # <<>>
                /\ b.declarations = r.declarations[pr]
                /\ b.specificity = selector.specificity

\* The declarations of the user and author rules that target a precomputed
\* pseudo-element.
OtherOriginPrecomputedPayloads ==
    UNION {{r.declarations[pr] : pr \in Priorities} :
              r \in {x \in UNION {StyleRulesOf(sheet) :
                                     sheet \in {y \in AllSheets :
                                                   y.origin # "UserAgent"}} :
                        \E selector \in Range(x.selectors) :
                            /\ selector.pseudo_element # <<>>
                            /\ selector.pseudo_element[1] \in PrecomputedPseudos}}
    \ {<<>>}

\* The cached list of the pseudo-element holds blocks of universal
\* user-agent rules only, those of normal declarations before those of
\* important declarations.
CacheFromUserAgent(pseudo) ==
    LET list == stylist.precomputed_pseudo_element_decls[pseudo]
    IN  /\ \A i \in 1..Len(list) :
              /\ \/ UniversalUserAgentBlock(list[i], pseudo, "normal")
                 \/ UniversalUserAgentBlock(list[i], pseudo, "important")
              /\ list[i].declarations \notin OtherOriginPrecomputedPayloads
        /\ \A i, j \in 1..Len(list) :
              ( /\ UniversalUserAgentBlock(list[i], pseudo, "normal")
                /\ UniversalUserAgentBlock(list[j], pseudo, "important") )
              => i < j

\* C26: no precomputed pseudo-element has a scope in the scope map; after
\* a rebuild every precomputed pseudo-element a rule with declarations
\* targeted has a cached list in its stead; a cached list holds blocks of
\* universal user-agent rules only, normal before important; and no block of
\* a user or author rule that targets a precomputed pseudo-element is in the
\* cache or in what a lookup returns.
C26_PrecomputedScopesMovedOut ==
    /\ DOMAIN stylist.pseudos_map \cap PrecomputedPseudos = {}
    /\ \A pseudo \in Cached : CacheFromUserAgent(pseudo)
    /\ (last.op = "update" /\ last.result) =>
          \A pseudo \in PrecomputedPseudos :
              Targeted(InsertedFor(stylist.device, stylist.quirks_mode,
                                   document_stylesheets), pseudo)
              => pseudo \in Cached
    /\ \A q \in Lookups :
          ~Lookup(q).panicked =>
              \A b \in Range(Lookup(q).applicable_declarations) :
                  b.declarations \notin OtherOriginPrecomputedPayloads

\* A rebuild in quirks mode, with an author rule of a precomputed
\* pseudo-element among the document's, has cached a list of a normal and an
\* important user-agent block for one precomputed pseudo-element and an
\* empty list for the one the author rule targets.
C26_Witness ==
    /\ last.op = "update" /\ last.result
    /\ DocB \in Range(document_stylesheets)
    /\ Cached = PrecomputedPseudos
    /\ Len(stylist.precomputed_pseudo_element_decls["details_content"]) = 2
    /\ stylist.precomputed_pseudo_element_decls["servo_anonymous_block"] = <<>>

(***************************************************************************)
(* C27                                                                     *)
(***************************************************************************)
\* The step drops the ScriptReflow i.
Drops(i) ==
    /\ script_reflows[i].stage # "dropped"
    /\ script_reflows'[i].stage = "dropped"

\* C27: nothing is sent on the script_join_chan of a ScriptReflow that has
\* not been dropped, wherever the value is; the step that drops it sends one
\* notification when the Receiver is there, and panics, sending nothing,
\* when the Receiver is gone; no other step sends on the channel; so a
\* dropped ScriptReflow has sent exactly one notification or has panicked in
\* its drop.
C27_OneNotificationAtDrop ==
    /\ [][ \A i \in ReflowIds :
              LET before == script_reflows[i].script_join_chan
                  after  == script_reflows'[i].script_join_chan
              IN  IF Drops(i)
                  THEN IF before.receiver = "open"
                       THEN /\ after.sent = before.sent + 1
                            /\ ~script_reflows'[i].panicked
                       ELSE /\ after.sent = before.sent
                            /\ script_reflows'[i].panicked
                  ELSE /\ after.sent = before.sent
                       /\ script_reflows'[i].panicked
                              = script_reflows[i].panicked ]_vars
    /\ [](\A i \in ReflowIds :
              IF script_reflows[i].stage = "dropped"
              THEN \/ /\ script_reflows[i].script_join_chan.sent = 1
                      /\ ~script_reflows[i].panicked
                   \/ /\ script_reflows[i].script_join_chan.sent = 0
                      /\ script_reflows[i].panicked
                      /\ script_reflows[i].script_join_chan.receiver = "gone"
              ELSE /\ script_reflows[i].script_join_chan.sent = 0
                   /\ ~script_reflows[i].panicked)

\* One ScriptReflow was dropped with its Receiver there and has sent its
\* notification; another was dropped with its Receiver gone and has
\* panicked.
C27_Witness ==
    \E i, j \in ReflowIds :
        /\ script_reflows[i].stage = "dropped"
        /\ script_reflows[i].script_join_chan.sent = 1
        /\ script_reflows[j].stage = "dropped"
        /\ script_reflows[j].panicked

=============================================================================
